---- MODULE Spec2Model ----
(***************************************************************************)
(* A model of the content-generator adapters of the repository:            *)
(*   - OllamaContentGenerator (request translation, the tools-unsupported  *)
(*     fallback, response normalisation, the streaming aggregator,         *)
(*     countTokens, embedContent);                                         *)
(*   - AnthropicContentGenerator.generateContent (key resolution, request  *)
(*     translation, response normalisation, error wrapping);               *)
(*   - the API-key storage functions (load, save, clear) and the clear of  *)
(*     the stored key from the AnthropicAuthDialog.                        *)
(*                                                                         *)
(* Text is a sequence of tokens (each token a short run of characters):    *)
(* '' is <<>>, concatenation is \o, and String.includes / startsWith /     *)
(* trim act on whole tokens.  A JavaScript value that is "falsy" when      *)
(* absent is modelled by the empty text, the number 0 or the empty         *)
(* sequence, as the code's own `x || default` tests treat it.              *)
(***************************************************************************)
EXTENDS Integers, Sequences, FiniteSets, TLC

VARIABLES
  toolsSupported,   \* OllamaContentGenerator.toolsSupported
  anthropic,        \* AnthropicContentGenerator.anthropic, the cached client
  env,              \* process.env['ANTHROPIC_API_KEY']
  storage,          \* the credentials held by the HybridTokenStorage
  dialog,           \* the AnthropicAuthDialog: mounted, pendingPromise, buffer
  inv               \* the invocations made on the adapters, by index

vars == <<toolsSupported, anthropic, env, storage, dialog, inv>>

\* the state of the Anthropic adapter, of what it reads and of its key dialog
anthropicVars == <<anthropic, env, storage, dialog>>

----------------------------------------------------------------------------
(* Bounds of the model *)

\* number of invocations made on one adapter instance
MaxInv == 2
\* number of chunks the backend streams before it must complete or fail,
\* with concurrent invocations
MaxChunks == 1
\* the same, for one stream on its own
MaxFragments == 3
\* number of messages (contents) of a drawn request
MaxContents == 2

Invocations == 1..MaxInv

----------------------------------------------------------------------------
(* Text helpers *)

RECURSIVE Flatten(_)
\* Array.prototype.join('') of a sequence of texts
Flatten(texts) ==
  IF texts = <<>> THEN <<>> ELSE Head(texts) \o Flatten(Tail(texts))

RECURSIVE JoinWith(_, _)
\* Array.prototype.join(sep) of a sequence of texts
JoinWith(texts, sep) ==
  IF texts = <<>> THEN <<>>
  ELSE IF Len(texts) = 1 THEN Head(texts)
  ELSE Head(texts) \o sep \o JoinWith(Tail(texts), sep)

\* String.prototype.includes, for a needle that is one token
Includes(text, tok) == \E k \in 1..Len(text) : text[k] = tok

RECURSIVE CharLen(_)
\* String.prototype.length: the characters of all the tokens
CharLen(text) ==
  IF text = <<>> THEN 0 ELSE Len(Head(text)) + CharLen(Tail(text))

----------------------------------------------------------------------------
(* Parts, contents, requests (the @google/genai shapes the code reads) *)

TextPart(t) == [t |-> "text", text |-> t]
\* args and response are JSON texts; <<>> is an absent payload
FunctionCallPart(n, a) == [t |-> "functionCall", name |-> n, args |-> a]
FunctionResponsePart(r) == [t |-> "functionResponse", response |-> r]
\* a part of another kind (inlineData, ...), which no filter of the
\* translators selects
OtherPart == [t |-> "inlineData"]

\* p.text (truthy), p.functionCall, p.functionResponse
HasText(p) == p.t = "text" /\ p.text # <<>>
HasFunctionCall(p) == p.t = "functionCall"
HasFunctionResponse(p) == p.t = "functionResponse"

\* p.text || ''
TextOrEmpty(p) == IF HasText(p) THEN p.text ELSE <<>>

\* JSON.stringify(x || {}) of a payload held as its JSON text
StringifyOrEmptyObject(x) == IF x = <<>> THEN <<"{}">> ELSE x

NoSystemInstruction == [kind |-> "none"]
NoTemperature == "undefined"

----------------------------------------------------------------------------
(* isToolsNotSupportedError, part_001:18-21 *)

ToolsPhrase == "does not support tools"

\* anthropicContentGenerator.ts:134
MaxTokens == 8192

isToolsNotSupportedError(msg) == Includes(msg, ToolsPhrase)

----------------------------------------------------------------------------
(* mapGeminiParamsToOllama, part_001:40-161 *)

\* the separator of the system-instruction join: the two characters \ and n
SystemSeparator == <<"\\n">>

\* part_001:47-60: the text of the system entry (<<>>: no entry)
SystemText(si) ==
  IF si.kind = "string" THEN si.text
  ELSE IF si.kind = "parts"
    THEN JoinWith([k \in 1..Len(si.parts) |-> TextOrEmpty(si.parts[k])],
                  SystemSeparator)
    ELSE <<>>

\* the mutant of SystemMessages: the system entry is pushed even when empty
SystemMessagesKeepingEmpty(request) ==
  IF request.systemInstruction.kind = "none"
    THEN <<>>
    ELSE <<[role |-> "system",
            content |-> SystemText(request.systemInstruction),
            tool_calls |-> <<>>]>>

SystemMessages(request) ==
  LET text == SystemText(request.systemInstruction)
  IN IF text # <<>>
       THEN <<[role |-> "system", content |-> text, tool_calls |-> <<>>]>>
       ELSE <<>>

\* part_001:70-83: the declarations of one tool object
DeclarationsOf(tool) ==
  IF tool.hasFunctionDeclarations
    THEN [k \in 1..Len(tool.functionDeclarations) |->
            [type |-> "function",
             name |-> tool.functionDeclarations[k].name,
             description |-> tool.functionDeclarations[k].description,
             parameters |->
               IF tool.functionDeclarations[k].parameters = <<>>
                 THEN <<"{\"type\":\"object\",\"properties\":{}}">>
                 ELSE tool.functionDeclarations[k].parameters]]
    ELSE <<>>

\* the mutant of OllamaTools: the declarations are sent whatever the flag
OllamaToolsIgnoringFlag(request, supported) ==
  Flatten([k \in 1..Len(request.tools) |-> DeclarationsOf(request.tools[k])])

\* part_001:62-84 and 158: the tools of the payload (<<>>: undefined)
OllamaTools(request, supported) ==
  IF supported /\ Len(request.tools) > 0
    THEN Flatten([k \in 1..Len(request.tools) |->
                    DeclarationsOf(request.tools[k])])
    ELSE <<>>

\* the mutant of ContentMessages: with the flag cleared only the tool messages
\* of a content with functionResponse parts are left out, its text is kept
ContentMessagesKeepingText(c, supported) ==
  LET textParts == SelectSeq(c.parts, HasText)
      functionCallParts == SelectSeq(c.parts, HasFunctionCall)
      functionResponseParts == SelectSeq(c.parts, HasFunctionResponse)
      text == Flatten([k \in 1..Len(textParts) |-> textParts[k].text])
  IN (IF supported
        THEN [k \in 1..Len(functionResponseParts) |->
                [role |-> "tool",
                 content |->
                   StringifyOrEmptyObject(functionResponseParts[k].response),
                 tool_calls |-> <<>>]]
        ELSE <<>>)
     \o (IF text # <<>> \/ (supported /\ Len(functionCallParts) > 0)
          THEN <<[role |-> IF c.role = "model" THEN "assistant" ELSE "user",
                  content |-> text,
                  tool_calls |->
                    IF supported
                      THEN [k \in 1..Len(functionCallParts) |->
                              [name |-> functionCallParts[k].name,
                               arguments |-> StringifyOrEmptyObject(
                                               functionCallParts[k].args)]]
                      ELSE <<>>]>>
          ELSE <<>>)

\* part_001:91-147: the messages one content of the request maps to
ContentMessages(c, supported) ==
  LET ollamaRole == IF c.role = "model" THEN "assistant" ELSE "user"
      functionResponseParts == SelectSeq(c.parts, HasFunctionResponse)
      isToolResponse == Len(functionResponseParts) > 0
      textParts == SelectSeq(c.parts, HasText)
      functionCallParts == SelectSeq(c.parts, HasFunctionCall)
      text == Flatten([k \in 1..Len(textParts) |-> textParts[k].text])
      tool_calls ==
        IF supported
          THEN [k \in 1..Len(functionCallParts) |->
                  [name |-> functionCallParts[k].name,
                   arguments |->
                     StringifyOrEmptyObject(functionCallParts[k].args)]]
          ELSE <<>>
  IN IF isToolResponse /\ ~supported
       THEN <<>>      \* continue: the whole message is skipped
       ELSE [k \in 1..Len(functionResponseParts) |->
               [role |-> "tool",
                content |->
                  StringifyOrEmptyObject(functionResponseParts[k].response),
                tool_calls |-> <<>>]]
            \o (IF /\ \/ ~isToolResponse
                      \/ Len(textParts) > 0
                      \/ Len(functionCallParts) > 0
                   /\ (text # <<>> \/ Len(tool_calls) > 0)
                  THEN <<[role |-> ollamaRole, content |-> text,
                          tool_calls |-> tool_calls]>>
                  ELSE <<>>)

\* part_001:40-161, with this.toolsSupported read as `supported`
mapGeminiParamsToOllama(request, supported) ==
  [messages |->
     SystemMessages(request)
     \o Flatten([k \in 1..Len(request.contents) |->
                   ContentMessages(request.contents[k], supported)]),
   tools |-> OllamaTools(request, supported),
   options |-> request.temperature]

\* the arguments of one ollama.chat call
ChatCall(messages, tools, options, stream) ==
  [messages |-> messages, tools |-> tools, options |-> options,
   stream |-> stream]

----------------------------------------------------------------------------
(* JSON.parse, on the tokens { } : , the blank and string literals *)

NameToken == "\"name\""
ArgumentsToken == "\"arguments\""
EmptyStringToken == "\"\""
JsonStringTokens == {NameToken, ArgumentsToken, "\"foo\"", EmptyStringToken}
Blank == " "

RECURSIVE SkipBlanks(_)
SkipBlanks(ts) ==
  IF ts # <<>> /\ Head(ts) = Blank THEN SkipBlanks(Tail(ts)) ELSE ts

RECURSIVE DropTrailingBlanks(_)
DropTrailingBlanks(ts) ==
  IF ts # <<>> /\ ts[Len(ts)] = Blank
    THEN DropTrailingBlanks(SubSeq(ts, 1, Len(ts) - 1))
    ELSE ts

\* String.prototype.trim
Trim(ts) == DropTrailingBlanks(SkipBlanks(ts))

\* String.prototype.startsWith('{')
StartsWithBrace(ts) == ts # <<>> /\ Head(ts) = "{"

JsonString(tok) == [t |-> "string", s |-> tok]
JsonObject(ms) == [t |-> "object", members |-> ms]
JsonUndefined == [t |-> "undefined"]
ParseFailure == [ok |-> FALSE, value |-> JsonUndefined, rest |-> <<>>]

RECURSIVE ParseValue(_), ParseMembers(_, _)
\* value := string | '{' [ member { ',' member } ] '}'
ParseValue(ts0) ==
  LET ts == SkipBlanks(ts0)
  IN IF ts = <<>> THEN ParseFailure
     ELSE IF Head(ts) \in JsonStringTokens
       THEN [ok |-> TRUE, value |-> JsonString(Head(ts)), rest |-> Tail(ts)]
     ELSE IF Head(ts) = "{"
       THEN LET inner == SkipBlanks(Tail(ts))
            IN IF inner # <<>> /\ Head(inner) = "}"
                 THEN [ok |-> TRUE, value |-> JsonObject(<<>>),
                       rest |-> Tail(inner)]
                 ELSE ParseMembers(inner, <<>>)
     ELSE ParseFailure

\* member := string ':' value, then ',' member or '}'
ParseMembers(ts0, acc) ==
  LET ts == SkipBlanks(ts0)
  IN IF ts = <<>> \/ Head(ts) \notin JsonStringTokens THEN ParseFailure
     ELSE LET colon == SkipBlanks(Tail(ts))
          IN IF colon = <<>> \/ Head(colon) # ":" THEN ParseFailure
             ELSE LET v == ParseValue(Tail(colon))
                      after == SkipBlanks(v.rest)
                      ms == Append(acc, [key |-> Head(ts), value |-> v.value])
                  IN IF ~v.ok \/ after = <<>> THEN ParseFailure
                     ELSE IF Head(after) = "}"
                       THEN [ok |-> TRUE, value |-> JsonObject(ms),
                             rest |-> Tail(after)]
                     ELSE IF Head(after) = ","
                       THEN ParseMembers(Tail(after), ms)
                     ELSE ParseFailure

\* JSON.parse(text): fails unless the whole text is one value
JSONparse(text) ==
  LET r == ParseValue(text)
  IN IF r.ok /\ SkipBlanks(r.rest) = <<>> THEN r ELSE ParseFailure

RECURSIVE LookupMember(_, _)
LookupMember(ms, key) ==
  IF ms = <<>> THEN JsonUndefined
  ELSE IF ms[Len(ms)].key = key THEN ms[Len(ms)].value
  ELSE LookupMember(SubSeq(ms, 1, Len(ms) - 1), key)

\* parsed.<key>: the last member of that key, undefined when there is none
Property(v, key) ==
  IF v.t = "object" THEN LookupMember(v.members, key) ELSE JsonUndefined

\* the truthiness of a parsed value
Truthy(v) ==
  \/ v.t = "object"
  \/ v.t = "string" /\ v.s # EmptyStringToken

----------------------------------------------------------------------------
(* Backend values: what ollama.chat resolves to, streams, or rejects with *)

\* a non-streaming response or one streamed chunk of ollama.chat;
\* a count of 0 stands for an absent count
BackendMessage(content, tool_calls, prompt_eval_count, eval_count, done) ==
  [content |-> content, tool_calls |-> tool_calls,
   prompt_eval_count |-> prompt_eval_count, eval_count |-> eval_count,
   done |-> done]

\* part_001:206-213 and 317-324: one functionCall part per backend tool call
ToolCallParts(tool_calls) ==
  [k \in 1..Len(tool_calls) |->
     FunctionCallPart(tool_calls[k].name, tool_calls[k].arguments)]

\* part_001:198-231: the unified response of generateContent
NormalizeResponse(response) ==
  [parts |->
     (IF response.content # <<>> THEN <<TextPart(response.content)>> ELSE <<>>)
     \o ToolCallParts(response.tool_calls),
   promptTokenCount |-> response.prompt_eval_count,
   candidatesTokenCount |-> response.eval_count,
   totalTokenCount |-> response.prompt_eval_count + response.eval_count]

\* part_001:232-236 and 399-407: the error the outer catch throws
WrapError(operation, msg) == <<"Ollama", " " \o operation, " failed: ">> \o msg

----------------------------------------------------------------------------
(* The streaming aggregator: the body of the for-await loop, part_001:292-398 *)

\* part_001:295-311: the accumulator after the chunk's text was appended
Accumulated(s, chunk) ==
  IF chunk.content # <<>> THEN s.accumulatedText \o chunk.content
  ELSE s.accumulatedText

\* part_001:299-304: the classification, set once and never cleared
Classified(s, chunk) ==
  \/ s.isPotentiallyJson
  \/ /\ chunk.content # <<>>
     /\ StartsWithBrace(Trim(Accumulated(s, chunk)))
     /\ Includes(Accumulated(s, chunk), NameToken)

\* the mutant of Rescue: the accumulator is not cleared after the rescue, so
\* the raw text is emitted next to the functionCall part
RescueKeepingText(text) ==
  LET parsed == JSONparse(Trim(text))
      name == Property(parsed.value, NameToken)
      arguments == Property(parsed.value, ArgumentsToken)
  IN IF parsed.ok /\ Truthy(name) /\ Truthy(arguments)
       THEN <<FunctionCallPart(name, arguments), TextPart(text)>>
       ELSE <<TextPart(text)>>

\* part_001:341-373: the rescue of a withheld accumulator on the final chunk
Rescue(text) ==
  LET parsed == JSONparse(Trim(text))
      name == Property(parsed.value, NameToken)
      arguments == Property(parsed.value, ArgumentsToken)
  IN IF parsed.ok /\ Truthy(name) /\ Truthy(arguments)
       THEN <<FunctionCallPart(name, arguments)>>
       ELSE <<TextPart(text)>>

\* the mutant of FlushedParts: the text is yielded whatever the classification
FlushedPartsIgnoringClassification(acc, json, chunk) ==
  IF chunk.content # <<>> THEN <<TextPart(acc)>> ELSE <<>>

\* the mutant of FlushedParts: the text is trimmed before it is yielded
FlushedPartsTrimmed(acc, json, chunk) ==
  IF chunk.content # <<>> /\ ~json THEN <<TextPart(Trim(acc))>> ELSE <<>>

\* part_001:306-310: text that does not look like JSON is yielded at once
FlushedParts(acc, json, chunk) ==
  IF chunk.content # <<>> /\ ~json THEN <<TextPart(acc)>> ELSE <<>>

\* the mutant of ShouldYield: a chunk is yielded only when it has parts
ShouldYieldOnParts(parts, chunk) == Len(parts) > 0

\* part_001:375-376: yield when there are parts or the stream is ending
ShouldYield(parts, chunk) == Len(parts) > 0 \/ chunk.done

\* the mutant of Aggregate: the total is summed before the candidate count of
\* the chunk is taken
AggregateStaleTotal(s, chunk) ==
  LET acc == Accumulated(s, chunk)
      json == Classified(s, chunk)
      flushed == chunk.content # <<>> /\ ~json
      held == IF flushed THEN <<>> ELSE acc
      final == chunk.done /\ json /\ Trim(held) # <<>>
      parts ==
        FlushedParts(acc, json, chunk)
        \o ToolCallParts(chunk.tool_calls)
        \o (IF final THEN Rescue(held) ELSE <<>>)
      promptTokenCount ==
        IF chunk.prompt_eval_count # 0 THEN chunk.prompt_eval_count
        ELSE s.promptTokenCount
      candidatesTokenCount ==
        IF chunk.eval_count # 0 THEN chunk.eval_count
        ELSE s.candidatesTokenCount
      totalTokenCount ==
        IF chunk.prompt_eval_count # 0 \/ chunk.eval_count # 0
          THEN promptTokenCount + s.candidatesTokenCount
          ELSE s.totalTokenCount
      textOfParts == SelectSeq(parts, HasText)
  IN [accumulatedText |-> IF final THEN <<>> ELSE held,
      isPotentiallyJson |-> json,
      promptTokenCount |-> promptTokenCount,
      candidatesTokenCount |-> candidatesTokenCount,
      totalTokenCount |-> totalTokenCount,
      yielded |->
        IF ShouldYield(parts, chunk)
          THEN <<[parts |-> parts,
                  finishReason |-> IF chunk.done THEN "STOP" ELSE "none",
                  promptTokenCount |-> promptTokenCount,
                  candidatesTokenCount |-> candidatesTokenCount,
                  totalTokenCount |-> totalTokenCount,
                  text |-> IF textOfParts # <<>> THEN textOfParts[1].text
                           ELSE <<>>,
                  functionCalls |-> chunk.tool_calls]>>
          ELSE <<>>]

\* part_001:292-398: one iteration of the loop on `chunk`, from the generator's
\* locals `s`; yielded is <<>> or the one chunk the iteration yields
Aggregate(s, chunk) ==
  LET acc == Accumulated(s, chunk)
      json == Classified(s, chunk)
      flushed == chunk.content # <<>> /\ ~json
      held == IF flushed THEN <<>> ELSE acc
      final == chunk.done /\ json /\ Trim(held) # <<>>
      parts ==
        FlushedParts(acc, json, chunk)
        \o ToolCallParts(chunk.tool_calls)
        \o (IF final THEN Rescue(held) ELSE <<>>)
      promptTokenCount ==
        IF chunk.prompt_eval_count # 0 THEN chunk.prompt_eval_count
        ELSE s.promptTokenCount
      candidatesTokenCount ==
        IF chunk.eval_count # 0 THEN chunk.eval_count
        ELSE s.candidatesTokenCount
      totalTokenCount ==
        IF chunk.prompt_eval_count # 0 \/ chunk.eval_count # 0
          THEN promptTokenCount + candidatesTokenCount
          ELSE s.totalTokenCount
      textOfParts == SelectSeq(parts, HasText)
  IN [accumulatedText |-> IF final THEN <<>> ELSE held,
      isPotentiallyJson |-> json,
      promptTokenCount |-> promptTokenCount,
      candidatesTokenCount |-> candidatesTokenCount,
      totalTokenCount |-> totalTokenCount,
      yielded |->
        IF ShouldYield(parts, chunk)
          THEN <<[parts |-> parts,
                  finishReason |-> IF chunk.done THEN "STOP" ELSE "none",
                  promptTokenCount |-> promptTokenCount,
                  candidatesTokenCount |-> candidatesTokenCount,
                  totalTokenCount |-> totalTokenCount,
                  text |-> IF textOfParts # <<>> THEN textOfParts[1].text
                           ELSE <<>>,
                  functionCalls |-> chunk.tool_calls]>>
          ELSE <<>>]

\* part_001:749-802: the loop body of the second copy of the class in the
\* file, which keeps no accumulator and yields on every chunk
AggregateSecondCopy(s, chunk) ==
  LET parts ==
        (IF chunk.content # <<>> THEN <<TextPart(chunk.content)>> ELSE <<>>)
        \o ToolCallParts(chunk.tool_calls)
      promptTokenCount ==
        IF chunk.prompt_eval_count # 0 THEN chunk.prompt_eval_count
        ELSE s.promptTokenCount
      candidatesTokenCount ==
        IF chunk.eval_count # 0 THEN chunk.eval_count
        ELSE s.candidatesTokenCount
      totalTokenCount ==
        IF chunk.prompt_eval_count # 0 \/ chunk.eval_count # 0
          THEN promptTokenCount + candidatesTokenCount
          ELSE s.totalTokenCount
  IN [accumulatedText |-> <<>>,
      isPotentiallyJson |-> FALSE,
      promptTokenCount |-> promptTokenCount,
      candidatesTokenCount |-> candidatesTokenCount,
      totalTokenCount |-> totalTokenCount,
      yielded |->
        <<[parts |-> parts,
           finishReason |-> IF chunk.done THEN "STOP" ELSE "none",
           promptTokenCount |-> promptTokenCount,
           candidatesTokenCount |-> candidatesTokenCount,
           totalTokenCount |-> totalTokenCount,
           text |-> chunk.content,
           functionCalls |-> chunk.tool_calls]>>]

----------------------------------------------------------------------------
(* countTokens and embedContent, part_001:411-464 *)

\* JSON.stringify(p.functionCall || {})
StringifyFunctionCall(p) ==
  IF HasFunctionCall(p)
    THEN <<"{\"name\":\"" \o p.name \o "\"">>
         \o (IF p.args = <<>> THEN <<>> ELSE <<",\"args\":">> \o p.args)
         \o <<"}">>
    ELSE <<"{}">>

\* part_001:416-428: totalText
TotalText(contents) ==
  Flatten([k \in 1..Len(contents) |->
    JoinWith([j \in 1..Len(contents[k].parts) |->
                IF HasText(contents[k].parts[j])
                  THEN contents[k].parts[j].text
                  ELSE StringifyFunctionCall(contents[k].parts[j])],
             <<" ">>)])

\* part_001:429: Math.ceil(totalText.length / 4)
EstimateTokens(contents) == (CharLen(TotalText(contents)) + 3) \div 4

\* part_001:435-448: the input of the embeddings call
EmbedInput(contents) ==
  IF contents.kind = "string" THEN contents.text
  ELSE IF contents.kind = "content"
    THEN JoinWith([j \in 1..Len(contents.parts) |->
                     TextOrEmpty(contents.parts[j])], <<" ">>)
  ELSE IF contents.kind = "array"
    THEN JoinWith([k \in 1..Len(contents.items) |->
                     JoinWith([j \in 1..Len(contents.items[k].parts) |->
                                 TextOrEmpty(contents.items[k].parts[j])],
                              <<" ">>)], <<" ">>)
  ELSE <<>>

----------------------------------------------------------------------------
(* The API-key storage, anthropicContentGenerator.ts:352-432 *)

DEFAULT_API_KEY_ENTRY == "default-api-key"
ANTHROPIC_API_KEY_ENTRY == "anthropic-api-key"
Entries == {DEFAULT_API_KEY_ENTRY, ANTHROPIC_API_KEY_ENTRY}

\* an absent key: undefined, null or ''
NoKey == ""
NoCredentials == [serverName |-> "", accessToken |-> NoKey]
Credentials(entry, key) == [serverName |-> entry, accessToken |-> key]

\* anthropicContentGenerator.ts:418-432: the key loadAnthropicApiKey returns
\* when storage.getCredentials resolves (ok) or rejects
LoadedAnthropicApiKey(ok) ==
  IF ok THEN storage[ANTHROPIC_API_KEY_ENTRY].accessToken ELSE NoKey

\* part_000:29-55: the dialog once mounted: no pending clear, the buffer
\* holding defaultValue
Mounted(defaultValue) ==
  [mounted |-> TRUE, pendingPromise |-> 0, buffer |-> defaultValue]

----------------------------------------------------------------------------
(* AnthropicContentGenerator, anthropicContentGenerator.ts:16-192 *)

NoClient == [apiKey |-> NoKey]

\* p.functionCall.id, p.functionResponse.id: absent unless the part has one
IdOf(p) == IF "id" \in DOMAIN p THEN p.id ELSE ""

\* anthropicContentGenerator.ts:59-74 and 132
AnthropicTools(request) ==
  Flatten([k \in 1..Len(request.tools) |->
    IF request.tools[k].hasFunctionDeclarations
      THEN [j \in 1..Len(request.tools[k].functionDeclarations) |->
              [name |-> request.tools[k].functionDeclarations[j].name,
               description |->
                 request.tools[k].functionDeclarations[j].description,
               input_schema |->
                 IF request.tools[k].functionDeclarations[j].parameters = <<>>
                   THEN <<"{\"type\":\"object\",\"properties\":{}}">>
                   ELSE request.tools[k].functionDeclarations[j].parameters]]
      ELSE <<>>])

\* the mutant of AnthropicContentMessages: a text block is pushed for every
\* content, its text empty when the content has none
AnthropicContentMessagesKeepingBlank(c) ==
  LET textParts == SelectSeq(c.parts, HasText)
      functionCallParts == SelectSeq(c.parts, HasFunctionCall)
      functionResponseParts == SelectSeq(c.parts, HasFunctionResponse)
  IN <<[role |-> IF c.role = "model" THEN "assistant" ELSE "user",
        content |->
          [k \in 1..Len(functionResponseParts) |->
             [type |-> "tool_result", tool_use_id |-> "unknown_id",
              content |->
                StringifyOrEmptyObject(functionResponseParts[k].response)]]
          \o <<[type |-> "text",
                text |-> Flatten([k \in 1..Len(textParts) |->
                                    textParts[k].text])]>>
          \o [k \in 1..Len(functionCallParts) |->
                [type |-> "tool_use", id |-> "unknown_id",
                 name |-> functionCallParts[k].name,
                 input |->
                   StringifyOrEmptyObject(functionCallParts[k].args)]]]>>

\* anthropicContentGenerator.ts:81-126: the message one content maps to
AnthropicContentMessages(c) ==
  LET functionResponseParts == SelectSeq(c.parts, HasFunctionResponse)
      textParts == SelectSeq(c.parts, HasText)
      functionCallParts == SelectSeq(c.parts, HasFunctionCall)
      contentBlocks ==
        [k \in 1..Len(functionResponseParts) |->
           [type |-> "tool_result",
            tool_use_id |-> IF IdOf(functionResponseParts[k]) = ""
                              THEN "unknown_id"
                              ELSE IdOf(functionResponseParts[k]),
            content |->
              StringifyOrEmptyObject(functionResponseParts[k].response)]]
        \o (IF Len(textParts) > 0
              THEN <<[type |-> "text",
                      text |-> Flatten([k \in 1..Len(textParts) |->
                                          textParts[k].text])]>>
              ELSE <<>>)
        \o [k \in 1..Len(functionCallParts) |->
              [type |-> "tool_use",
               id |-> IF IdOf(functionCallParts[k]) = "" THEN "unknown_id"
                      ELSE IdOf(functionCallParts[k]),
               name |-> functionCallParts[k].name,
               input |-> StringifyOrEmptyObject(functionCallParts[k].args)]]
  IN IF Len(contentBlocks) > 0
       THEN <<[role |-> IF c.role = "model" THEN "assistant" ELSE "user",
               content |-> contentBlocks]>>
       ELSE <<>>

\* anthropicContentGenerator.ts:38-136
mapGeminiParamsToAnthropic(request) ==
  [system |-> SystemText(request.systemInstruction),
   messages |-> Flatten([k \in 1..Len(request.contents) |->
                           AnthropicContentMessages(request.contents[k])]),
   tools |-> AnthropicTools(request),
   temperature |-> request.temperature,
   max_tokens |-> MaxTokens]

\* a count of the Anthropic usage as the JavaScript value it is: a number, or
\* undefined when the field is missing; NaN is what a sum with undefined gives
Number(n) == [js |-> "number", n |-> n]
Undefined == [js |-> "undefined", n |-> 0]
NaN == [js |-> "NaN", n |-> 0]

\* the + of two JavaScript values that are numbers or undefined
JsPlus(a, b) ==
  IF a.js = "number" /\ b.js = "number" THEN Number(a.n + b.n) ELSE NaN

\* anthropicContentGenerator.ts:156-186: the unified response
NormalizeAnthropicResponse(response) ==
  [parts |->
     [k \in 1..Len(response.content) |->
        IF response.content[k].type = "text"
          THEN TextPart(response.content[k].text)
          ELSE [t |-> "functionCall", name |-> response.content[k].name,
                args |-> response.content[k].input,
                id |-> response.content[k].id]],
   promptTokenCount |-> response.input_tokens,
   candidatesTokenCount |-> response.output_tokens,
   totalTokenCount |-> JsPlus(response.input_tokens, response.output_tokens)]

\* the TypeError of reading response.usage.input_tokens without a usage
NoUsageError ==
  <<"Cannot read properties of undefined (reading 'input_tokens')">>

\* anthropicContentGenerator.ts:187-191: the error the catch throws
WrapAnthropicError(operation, msg) ==
  <<"Anthropic", " " \o operation, " failed: ">> \o msg

MissingKeyError ==
  <<"Anthropic API key is missing.",
    " Please set ANTHROPIC_API_KEY or run 'auth' to set it.">>

----------------------------------------------------------------------------
(* The invocations on one OllamaContentGenerator instance and on one       *)
(* AnthropicContentGenerator instance                                      *)

NoResult == [type |-> "none"]

\* an invocation that has not been made yet.  messages, tools, options and the
\* counters, accumulatedText, isPotentiallyJson are the locals of the call;
\* sent (the ollama.chat / ollama.embeddings calls issued), err (the error the
\* inner catch received), retryErr (the error the retry rejected with),
\* streamErr (the error the chunk stream threw), flipped (this call cleared the
\* flag), supportedAtCall (the flag when the request was translated), fed (the chunks the backend streamed, or the one response it returned) and out
\* (the chunks yielded to the consumer) record what happened; isCancelled is
\* the local of handleClear, after the invocations that had completed when
\* this one was made
Idle ==
  [kind |-> "none", pc |-> "idle", request |-> <<>>,
   messages |-> <<>>, tools |-> <<>>, options |-> NoTemperature,
   sent |-> <<>>, err |-> <<>>, retryErr |-> <<>>, streamErr |-> <<>>,
   flipped |-> FALSE, supportedAtCall |-> TRUE,
   isCancelled |-> FALSE, after |-> {},
   accumulatedText |-> <<>>, isPotentiallyJson |-> FALSE,
   currentText |-> <<>>,
   promptTokenCount |-> 0, candidatesTokenCount |-> 0, totalTokenCount |-> 0,
   fed |-> <<>>, out |-> <<>>, result |-> NoResult]

\* part_001:26-38: the adapter after construction
Init ==
  /\ toolsSupported = TRUE
  /\ anthropic = NoClient
  /\ env = NoKey
  /\ storage = [entry \in Entries |->
                  IF entry = ANTHROPIC_API_KEY_ENTRY
                    THEN Credentials(entry, "sk-stored") ELSE NoCredentials]
  /\ dialog = Mounted(<<>>)
  /\ inv = [i \in Invocations |-> Idle]

ErrorResult(msg) == [type |-> "error", msg |-> msg]

\* the mutant of ShouldRetry: any failure is retried while the flag is set
ShouldRetryAnyError(error, supported) == supported

\* the mutant of ShouldRetry: the tools error is retried whatever the flag
ShouldRetryWhileDisabled(error, supported) == isToolsNotSupportedError(error)

\* part_001:181 and 261: the catch retries iff the error is the tools error
\* and the flag is still set
ShouldRetry(error, supported) == isToolsNotSupportedError(error) /\ supported

(* generateContent, part_001:163-237 *)

\* part_001:168-179: translate, then issue the first ollama.chat call
GenerateContent(i, request) ==
  /\ inv[i].pc = "idle"
  /\ LET p == mapGeminiParamsToOllama(request, toolsSupported)
     IN inv' = [inv EXCEPT ![i] =
          [@ EXCEPT !.kind = "generateContent", !.pc = "chat",
                    !.request = request, !.supportedAtCall = toolsSupported,
                    !.messages = p.messages, !.tools = p.tools,
                    !.options = p.options,
                    !.sent = <<ChatCall(p.messages, p.tools, p.options,
                                        FALSE)>>]]
  /\ UNCHANGED <<toolsSupported, anthropicVars>>

\* part_001:180-196, 232-236: the first call rejects with `error`
GenerateContentFirstFails(i, error) ==
  /\ inv[i].kind = "generateContent" /\ inv[i].pc = "chat"
  /\ UNCHANGED anthropicVars
  /\ IF ShouldRetry(error, toolsSupported)
       THEN /\ toolsSupported' = FALSE
            /\ inv' = [inv EXCEPT ![i] =
                 [@ EXCEPT !.pc = "retry", !.err = error, !.flipped = TRUE,
                           !.sent = Append(@, ChatCall(inv[i].messages, <<>>,
                                                      inv[i].options, FALSE))]]
       ELSE /\ inv' = [inv EXCEPT ![i] =
                 [@ EXCEPT !.pc = "done", !.err = error,
                           !.result = ErrorResult(
                              WrapError("generateContent", error))]]
            /\ UNCHANGED toolsSupported

\* the mutant of GenerateContentRetryFails: a retry that fails with the tools
\* error is retried once more
GenerateContentRetryFailsRetrying(i, error) ==
  /\ inv[i].kind = "generateContent" /\ inv[i].pc = "retry"
  /\ inv' = [inv EXCEPT ![i] =
       IF isToolsNotSupportedError(error) /\ Len(inv[i].sent) < 3
         THEN [@ EXCEPT !.sent = Append(@, ChatCall(inv[i].messages, <<>>,
                                                    inv[i].options, FALSE))]
         ELSE [@ EXCEPT !.pc = "done", !.retryErr = error,
                        !.result = ErrorResult(
                           WrapError("generateContent", error))]]
  /\ UNCHANGED <<toolsSupported, anthropicVars>>

\* part_001:187-192, 232-236: the retry rejects with `error`
GenerateContentRetryFails(i, error) ==
  /\ inv[i].kind = "generateContent" /\ inv[i].pc = "retry"
  /\ inv' = [inv EXCEPT ![i] =
       [@ EXCEPT !.pc = "done", !.retryErr = error,
                 !.result = ErrorResult(WrapError("generateContent", error))]]
  /\ UNCHANGED <<toolsSupported, anthropicVars>>

\* the mutant of GenerateContentReturns: a response that carries tool calls
\* or text sets the flag again
GenerateContentReturnsReenabling(i, response) ==
  /\ inv[i].kind = "generateContent" /\ inv[i].pc \in {"chat", "retry"}
  /\ inv' = [inv EXCEPT ![i] =
       [@ EXCEPT !.pc = "done",
                 !.fed = <<response>>,
                 !.result = [type |-> "response",
                             value |-> NormalizeResponse(response)]]]
  /\ toolsSupported' = TRUE
  /\ UNCHANGED anthropicVars

\* part_001:198-231: either call resolves with `response`
GenerateContentReturns(i, response) ==
  /\ inv[i].kind = "generateContent" /\ inv[i].pc \in {"chat", "retry"}
  /\ inv' = [inv EXCEPT ![i] =
       [@ EXCEPT !.pc = "done",
                 !.fed = <<response>>,
                 !.result = [type |-> "response",
                             value |-> NormalizeResponse(response)]]]
  /\ UNCHANGED <<toolsSupported, anthropicVars>>

(* generateContentStream, part_001:239-409 and, second copy, 702-809 *)

FirstCopy == "generateContentStream"
SecondCopy == "generateContentStream (second copy)"
IsStream(i) == inv[i].kind \in {FirstCopy, SecondCopy}

\* part_001:244-249, 408: translate and return the generator, not yet started
GenerateContentStream(i, copy, request) ==
  /\ inv[i].pc = "idle"
  /\ LET p == mapGeminiParamsToOllama(request, toolsSupported)
     IN inv' = [inv EXCEPT ![i] =
          [@ EXCEPT !.kind = copy, !.pc = "created",
                    !.request = request, !.supportedAtCall = toolsSupported,
                    !.messages = p.messages, !.tools = p.tools,
                    !.options = p.options]]
  /\ UNCHANGED <<toolsSupported, anthropicVars>>

\* part_001:250-259: the consumer's first pull starts the body, which issues
\* the first ollama.chat call
StreamFirstPull(i) ==
  /\ IsStream(i) /\ inv[i].pc = "created"
  /\ inv' = [inv EXCEPT ![i] =
       [@ EXCEPT !.pc = "chat",
                 !.sent = <<ChatCall(inv[i].messages, inv[i].tools,
                                     inv[i].options, TRUE)>>]]
  /\ UNCHANGED <<toolsSupported, anthropicVars>>

\* part_001:260-281, 399-407: the first call rejects with `error`
StreamFirstFails(i, error) ==
  /\ IsStream(i) /\ inv[i].pc = "chat"
  /\ UNCHANGED anthropicVars
  /\ IF ShouldRetry(error, toolsSupported)
       THEN LET remapped == mapGeminiParamsToOllama(inv[i].request, FALSE)
            IN /\ toolsSupported' = FALSE
               /\ inv' = [inv EXCEPT ![i] =
                    [@ EXCEPT !.pc = "retry", !.err = error,
                              !.flipped = TRUE,
                              !.messages = remapped.messages,
                              !.tools = <<>>,
                              !.options = remapped.options,
                              !.sent = Append(@,
                                 ChatCall(remapped.messages, <<>>,
                                          remapped.options, TRUE))]]
       ELSE /\ inv' = [inv EXCEPT ![i] =
                 [@ EXCEPT !.pc = "done", !.err = error,
                           !.result = ErrorResult(
                              WrapError("generateContentStream", error))]]
            /\ UNCHANGED toolsSupported

\* the mutant of StreamRetryFails: the first error is the one propagated
StreamRetryFailsWithFirstError(i, error) ==
  /\ IsStream(i) /\ inv[i].pc = "retry"
  /\ inv' = [inv EXCEPT ![i] =
       [@ EXCEPT !.pc = "done", !.retryErr = error,
                 !.result = ErrorResult(
                    WrapError("generateContentStream", inv[i].err))]]
  /\ UNCHANGED <<toolsSupported, anthropicVars>>

\* part_001:272-277, 399-407: the retry rejects with `error`
StreamRetryFails(i, error) ==
  /\ IsStream(i) /\ inv[i].pc = "retry"
  /\ inv' = [inv EXCEPT ![i] =
       [@ EXCEPT !.pc = "done", !.retryErr = error,
                 !.result = ErrorResult(
                    WrapError("generateContentStream", error))]]
  /\ UNCHANGED <<toolsSupported, anthropicVars>>

\* part_001:283-292: either call resolves with the chunk stream; the loop
\* awaits its first chunk
StreamEstablished(i) ==
  /\ IsStream(i) /\ inv[i].pc \in {"chat", "retry"}
  /\ inv' = [inv EXCEPT ![i] = [@ EXCEPT !.pc = "iter"]]
  /\ UNCHANGED <<toolsSupported, anthropicVars>>

\* the backend has streamed its completion (done) chunk
Completed(i) ==
  IF inv[i].fed = <<>> THEN FALSE ELSE inv[i].fed[Len(inv[i].fed)].done

\* part_001:292-398: the backend streams `chunk`; the loop body runs up to its
\* yield, or to the next await when it yields nothing
StreamChunk(i, chunk, limit) ==
  /\ inv[i].pc = "iter"
  /\ ~Completed(i)
  /\ chunk.done \/ Len(inv[i].fed) < limit
  /\ LET a == IF inv[i].kind = FirstCopy THEN Aggregate(inv[i], chunk)
              ELSE AggregateSecondCopy(inv[i], chunk)
     IN inv' = [inv EXCEPT ![i] =
          [@ EXCEPT !.pc = IF a.yielded # <<>> THEN "yield" ELSE "iter",
                    !.accumulatedText = a.accumulatedText,
                    !.isPotentiallyJson = a.isPotentiallyJson,
                    !.promptTokenCount = a.promptTokenCount,
                    !.candidatesTokenCount = a.candidatesTokenCount,
                    !.totalTokenCount = a.totalTokenCount,
                    !.fed = Append(@, chunk),
                    !.out = @ \o a.yielded]]
  /\ UNCHANGED <<toolsSupported, anthropicVars>>

\* the consumer pulls again after a yield: the loop awaits the next chunk
StreamPull(i) ==
  /\ inv[i].pc = "yield"
  /\ inv' = [inv EXCEPT ![i] = [@ EXCEPT !.pc = "iter"]]
  /\ UNCHANGED <<toolsSupported, anthropicVars>>

\* part_001:398, 408: the backend's chunk stream ends; the loop and the
\* generator finish
StreamEnds(i) ==
  /\ inv[i].pc = "iter"
  /\ inv' = [inv EXCEPT ![i] =
       [@ EXCEPT !.pc = "done", !.result = [type |-> "completed"]]]
  /\ UNCHANGED <<toolsSupported, anthropicVars>>

\* the mutant of StreamIterationFails: the tools error restarts the stream
\* tool-free although chunks were yielded
StreamIterationFailsRestarting(i, error) ==
  /\ inv[i].pc = "iter"
  /\ ~Completed(i)
  /\ UNCHANGED anthropicVars
  /\ IF ShouldRetry(error, toolsSupported)
       THEN LET remapped == mapGeminiParamsToOllama(inv[i].request, FALSE)
            IN /\ toolsSupported' = FALSE
               /\ inv' = [inv EXCEPT ![i] =
                    [@ EXCEPT !.pc = "retry", !.err = error,
                              !.flipped = TRUE,
                              !.sent = Append(@,
                                 ChatCall(remapped.messages, <<>>,
                                          remapped.options, TRUE))]]
       ELSE /\ inv' = [inv EXCEPT ![i] =
                 [@ EXCEPT !.pc = "done", !.streamErr = error,
                           !.result = ErrorResult(
                              WrapError("generateContentStream", error))]]
            /\ UNCHANGED toolsSupported

\* part_001:292, 399-407: the chunk stream throws `error` while it is consumed
StreamIterationFails(i, error) ==
  /\ inv[i].pc = "iter"
  /\ ~Completed(i)
  /\ inv' = [inv EXCEPT ![i] =
       [@ EXCEPT !.pc = "done", !.streamErr = error,
                 !.result = ErrorResult(
                    WrapError("generateContentStream", error))]]
  /\ UNCHANGED <<toolsSupported, anthropicVars>>

\* the mutant of StreamCancel: stopping the stream undoes the flip it made
StreamCancelRollingBack(i) ==
  /\ IsStream(i) /\ inv[i].pc \in {"created", "yield"}
  /\ inv' = [inv EXCEPT ![i] =
       [@ EXCEPT !.pc = "done", !.result = [type |-> "cancelled"]]]
  /\ toolsSupported' = IF inv[i].flipped THEN TRUE ELSE toolsSupported
  /\ UNCHANGED anthropicVars

\* the consumer stops iterating (return() on the generator), before the first
\* pull or at a yield
StreamCancel(i) ==
  /\ IsStream(i) /\ inv[i].pc \in {"created", "yield"}
  /\ inv' = [inv EXCEPT ![i] =
       [@ EXCEPT !.pc = "done", !.result = [type |-> "cancelled"]]]
  /\ UNCHANGED <<toolsSupported, anthropicVars>>

(* AnthropicContentGenerator.generateContent,
   anthropicContentGenerator.ts:25-36 and 138-192 *)

AnthropicCreateCall(client, request) ==
  [apiKey |-> client.apiKey, params |-> mapGeminiParamsToAnthropic(request)]

\* the mutant of AnthropicGenerateContent: without a cached client the stored
\* key is loaded whatever the environment holds
AnthropicGenerateContentStoreFirst(i, request) ==
  /\ inv[i].pc = "idle"
  /\ IF anthropic # NoClient
       THEN inv' = [inv EXCEPT ![i] =
              [@ EXCEPT !.kind = "anthropic.generateContent",
                        !.pc = "create", !.request = request,
                        !.sent = <<AnthropicCreateCall(anthropic, request)>>]]
       ELSE inv' = [inv EXCEPT ![i] =
              [@ EXCEPT !.kind = "anthropic.generateContent",
                        !.pc = "loadKey", !.request = request]]
  /\ UNCHANGED <<toolsSupported, anthropicVars>>

\* anthropicContentGenerator.ts:143-154, 25-28: translate, then getAnthropic:
\* the cached client, else the environment's key, else the stored key, which
\* is awaited
AnthropicGenerateContent(i, request) ==
  /\ inv[i].pc = "idle"
  /\ IF anthropic # NoClient
       THEN /\ inv' = [inv EXCEPT ![i] =
                 [@ EXCEPT !.kind = "anthropic.generateContent",
                           !.pc = "create", !.request = request,
                           !.sent = <<AnthropicCreateCall(anthropic,
                                                          request)>>]]
            /\ UNCHANGED anthropic
       ELSE IF env # NoKey
         THEN /\ anthropic' = [apiKey |-> env]
              /\ inv' = [inv EXCEPT ![i] =
                   [@ EXCEPT !.kind = "anthropic.generateContent",
                             !.pc = "create", !.request = request,
                             !.sent = <<AnthropicCreateCall([apiKey |-> env],
                                                            request)>>]]
         ELSE /\ inv' = [inv EXCEPT ![i] =
                   [@ EXCEPT !.kind = "anthropic.generateContent",
                             !.pc = "loadKey", !.request = request]]
              /\ UNCHANGED anthropic
  /\ UNCHANGED <<toolsSupported, env, storage, dialog>>

\* the mutant of AnthropicKeyLoaded: without a key the client is made with
\* the absent key and messages.create is issued
AnthropicKeyLoadedCallingAnyway(i, ok) ==
  /\ inv[i].kind = "anthropic.generateContent" /\ inv[i].pc = "loadKey"
  /\ inv' = [inv EXCEPT ![i] =
       [@ EXCEPT !.pc = "create",
                 !.sent = <<AnthropicCreateCall(
                              [apiKey |-> LoadedAnthropicApiKey(ok)],
                              inv[i].request)>>]]
  /\ anthropic' = [apiKey |-> LoadedAnthropicApiKey(ok)]
  /\ UNCHANGED <<toolsSupported, env, storage, dialog>>

\* anthropicContentGenerator.ts:28-36, 146-154, 187-191: loadAnthropicApiKey
\* resolves; without a key the call fails, else the client is made and cached
\* and messages.create is issued
AnthropicKeyLoaded(i, ok) ==
  /\ inv[i].kind = "anthropic.generateContent" /\ inv[i].pc = "loadKey"
  /\ LET key == LoadedAnthropicApiKey(ok)
     IN IF key = NoKey
          THEN /\ inv' = [inv EXCEPT ![i] =
                    [@ EXCEPT !.pc = "done",
                              !.result = ErrorResult(
                                 WrapAnthropicError("generateContent",
                                                    MissingKeyError))]]
               /\ UNCHANGED anthropic
          ELSE /\ anthropic' = [apiKey |-> key]
               /\ inv' = [inv EXCEPT ![i] =
                    [@ EXCEPT !.pc = "create",
                              !.sent = <<AnthropicCreateCall([apiKey |-> key],
                                                             inv[i].request)>>]]
  /\ UNCHANGED <<toolsSupported, env, storage, dialog>>

\* anthropicContentGenerator.ts:156-191: messages.create resolves with
\* `response`; reading the counts of a response without usage throws, which
\* the catch wraps
AnthropicCreateReturns(i, response) ==
  /\ inv[i].kind = "anthropic.generateContent" /\ inv[i].pc = "create"
  /\ inv' = [inv EXCEPT ![i] =
       [@ EXCEPT !.pc = "done",
                 !.fed = <<response>>,
                 !.result =
                   IF response.hasUsage
                     THEN [type |-> "response",
                           value |-> NormalizeAnthropicResponse(response)]
                     ELSE ErrorResult(WrapAnthropicError("generateContent",
                                                         NoUsageError))]]
  /\ UNCHANGED <<toolsSupported, anthropicVars>>

\* anthropicContentGenerator.ts:187-191: messages.create rejects
AnthropicCreateFails(i, error) ==
  /\ inv[i].kind = "anthropic.generateContent" /\ inv[i].pc = "create"
  /\ inv' = [inv EXCEPT ![i] =
       [@ EXCEPT !.pc = "done", !.err = error,
                 !.result = ErrorResult(
                    WrapAnthropicError("generateContent", error))]]
  /\ UNCHANGED <<toolsSupported, anthropicVars>>

(* AnthropicContentGenerator.generateContentStream,
   anthropicContentGenerator.ts:194-311 *)

AnthropicStream == "anthropic.generateContentStream"

\* anthropicContentGenerator.ts:205-212: the arguments of messages.stream
AnthropicStreamCall(client, request) ==
  [apiKey |-> client.apiKey, params |-> mapGeminiParamsToAnthropic(request),
   stream |-> TRUE]

\* anthropicContentGenerator.ts:199-203, 25-28: translate, then getAnthropic
\* (outside the generator and its try); the generator is returned unstarted
AnthropicGenerateContentStream(i, request) ==
  /\ inv[i].pc = "idle"
  /\ IF anthropic # NoClient
       THEN /\ inv' = [inv EXCEPT ![i] =
                 [@ EXCEPT !.kind = AnthropicStream, !.pc = "created",
                           !.request = request]]
            /\ UNCHANGED anthropic
       ELSE IF env # NoKey
         THEN /\ anthropic' = [apiKey |-> env]
              /\ inv' = [inv EXCEPT ![i] =
                   [@ EXCEPT !.kind = AnthropicStream, !.pc = "created",
                             !.request = request]]
         ELSE /\ inv' = [inv EXCEPT ![i] =
                   [@ EXCEPT !.kind = AnthropicStream, !.pc = "loadKey",
                             !.request = request]]
              /\ UNCHANGED anthropic
  /\ UNCHANGED <<toolsSupported, env, storage, dialog>>

\* anthropicContentGenerator.ts:28-36, 201: loadAnthropicApiKey resolves;
\* without a key the call rejects with the error as it is, else the client is
\* made and cached and the generator returned
AnthropicStreamKeyLoaded(i, ok) ==
  /\ inv[i].kind = AnthropicStream /\ inv[i].pc = "loadKey"
  /\ LET key == LoadedAnthropicApiKey(ok)
     IN IF key = NoKey
          THEN /\ inv' = [inv EXCEPT ![i] =
                    [@ EXCEPT !.pc = "done",
                              !.result = ErrorResult(MissingKeyError)]]
               /\ UNCHANGED anthropic
          ELSE /\ anthropic' = [apiKey |-> key]
               /\ inv' = [inv EXCEPT ![i] = [@ EXCEPT !.pc = "created"]]
  /\ UNCHANGED <<toolsSupported, env, storage, dialog>>

\* anthropicContentGenerator.ts:204-212: the consumer's first pull starts the
\* body, which issues the messages.stream call
AnthropicStreamFirstPull(i) ==
  /\ inv[i].kind = AnthropicStream /\ inv[i].pc = "created"
  /\ inv' = [inv EXCEPT ![i] =
       [@ EXCEPT !.pc = "stream",
                 !.sent = <<AnthropicStreamCall(anthropic, inv[i].request)>>]]
  /\ UNCHANGED <<toolsSupported, anthropicVars>>

\* anthropicContentGenerator.ts:205-225: messages.stream resolves
AnthropicStreamEstablished(i) ==
  /\ inv[i].kind = AnthropicStream /\ inv[i].pc = "stream"
  /\ inv' = [inv EXCEPT ![i] = [@ EXCEPT !.pc = "events"]]
  /\ UNCHANGED <<toolsSupported, anthropicVars>>

\* anthropicContentGenerator.ts:225-257: one iteration of the loop on `event`,
\* up to its yield
AnthropicStreamEvent(i, event, limit) ==
  /\ inv[i].kind = AnthropicStream /\ inv[i].pc = "events"
  /\ Len(inv[i].fed) < limit
  /\ LET promptTokenCount ==
           IF event.type = "message_start" /\ event.hasUsage
             THEN event.input_tokens ELSE inv[i].promptTokenCount
         currentText ==
           IF event.type = "text_delta"
             THEN inv[i].currentText \o event.text ELSE inv[i].currentText
         candidatesTokenCount ==
           IF event.type = "message_delta" /\ event.hasUsage
             THEN event.output_tokens ELSE inv[i].candidatesTokenCount
         totalTokenCount == promptTokenCount + candidatesTokenCount
     IN inv' = [inv EXCEPT ![i] =
          [@ EXCEPT !.pc = "eventYield",
                    !.promptTokenCount = promptTokenCount,
                    !.candidatesTokenCount = candidatesTokenCount,
                    !.totalTokenCount = totalTokenCount,
                    !.currentText = currentText,
                    !.fed = Append(@, event),
                    !.out = Append(@,
                       [parts |-> <<TextPart(currentText)>>,
                        finishReason |-> "none",
                        promptTokenCount |-> promptTokenCount,
                        candidatesTokenCount |-> candidatesTokenCount,
                        totalTokenCount |-> totalTokenCount,
                        text |-> currentText,
                        functionCalls |-> <<>>])]]
  /\ UNCHANGED <<toolsSupported, anthropicVars>>

\* the consumer pulls again after a yield of the loop
AnthropicStreamPull(i) ==
  /\ inv[i].kind = AnthropicStream /\ inv[i].pc = "eventYield"
  /\ inv' = [inv EXCEPT ![i] = [@ EXCEPT !.pc = "events"]]
  /\ UNCHANGED <<toolsSupported, anthropicVars>>

\* anthropicContentGenerator.ts:257-260: the event stream ends; the body
\* awaits stream.finalMessage()
AnthropicStreamEventsEnd(i) ==
  /\ inv[i].kind = AnthropicStream /\ inv[i].pc = "events"
  /\ inv' = [inv EXCEPT ![i] = [@ EXCEPT !.pc = "final"]]
  /\ UNCHANGED <<toolsSupported, anthropicVars>>

\* anthropicContentGenerator.ts:266-284: the parts of the final message
FinalParts(finalMessage) ==
  Flatten([k \in 1..Len(finalMessage.content) |->
    IF finalMessage.content[k].type = "text"
      THEN <<TextPart(finalMessage.content[k].text)>>
    ELSE IF finalMessage.content[k].type = "tool_use"
      THEN <<[t |-> "functionCall", name |-> finalMessage.content[k].name,
              args |-> finalMessage.content[k].input,
              id |-> finalMessage.content[k].id]>>
    ELSE <<>>])

\* anthropicContentGenerator.ts:260-304: finalMessage() resolves; the usage is
\* updated and the complete parts, if any, are yielded
AnthropicFinalMessage(i, finalMessage) ==
  /\ inv[i].kind = AnthropicStream /\ inv[i].pc = "final"
  /\ LET candidatesTokenCount ==
           IF finalMessage.hasUsage THEN finalMessage.output_tokens
           ELSE inv[i].candidatesTokenCount
         totalTokenCount ==
           IF finalMessage.hasUsage
             THEN inv[i].promptTokenCount + candidatesTokenCount
             ELSE inv[i].totalTokenCount
         parts == FinalParts(finalMessage)
     IN inv' = [inv EXCEPT ![i] =
          IF Len(parts) > 0
            THEN [@ EXCEPT !.pc = "finalYield",
                           !.candidatesTokenCount = candidatesTokenCount,
                           !.totalTokenCount = totalTokenCount,
                           !.out = Append(@,
                              [parts |-> parts,
                               finishReason |-> "none",
                               promptTokenCount |-> inv[i].promptTokenCount,
                               candidatesTokenCount |-> candidatesTokenCount,
                               totalTokenCount |-> totalTokenCount,
                               text |-> inv[i].currentText,
                               functionCalls |->
                                 SelectSeq(parts, HasFunctionCall)])]
            ELSE [@ EXCEPT !.pc = "done",
                           !.candidatesTokenCount = candidatesTokenCount,
                           !.totalTokenCount = totalTokenCount,
                           !.result = [type |-> "completed"]]]
  /\ UNCHANGED <<toolsSupported, anthropicVars>>

\* anthropicContentGenerator.ts:304, 310: the consumer pulls after the final
\* yield and the generator finishes
AnthropicStreamEnds(i) ==
  /\ inv[i].kind = AnthropicStream /\ inv[i].pc = "finalYield"
  /\ inv' = [inv EXCEPT ![i] =
       [@ EXCEPT !.pc = "done", !.result = [type |-> "completed"]]]
  /\ UNCHANGED <<toolsSupported, anthropicVars>>

\* anthropicContentGenerator.ts:305-309: messages.stream, the event stream or
\* finalMessage() throws `error`
AnthropicStreamFails(i, error) ==
  /\ inv[i].kind = AnthropicStream
  /\ inv[i].pc \in {"stream", "events", "final"}
  /\ inv' = [inv EXCEPT ![i] =
       [@ EXCEPT !.pc = "done", !.streamErr = error,
                 !.result = ErrorResult(
                    WrapAnthropicError("generateContentStream", error))]]
  /\ UNCHANGED <<toolsSupported, anthropicVars>>

\* the consumer stops iterating (return() on the generator), before the first
\* pull or at a yield
AnthropicStreamCancel(i) ==
  /\ inv[i].kind = AnthropicStream
  /\ inv[i].pc \in {"created", "eventYield", "finalYield"}
  /\ inv' = [inv EXCEPT ![i] =
       [@ EXCEPT !.pc = "done", !.result = [type |-> "cancelled"]]]
  /\ UNCHANGED <<toolsSupported, anthropicVars>>

(* countTokens and embedContent, part_001:411-464 *)

\* part_001:411-430: no await inside, the call runs to its end
CountTokens(i, contents) ==
  /\ inv[i].pc = "idle"
  /\ inv' = [inv EXCEPT ![i] =
       [@ EXCEPT !.kind = "countTokens", !.pc = "done",
                 !.request = contents,
                 !.result = [type |-> "count",
                             totalTokens |-> EstimateTokens(contents)]]]
  /\ UNCHANGED <<toolsSupported, anthropicVars>>

\* part_001:432-455: extract the input; throw when empty, else call embeddings
EmbedContent(i, contents) ==
  /\ inv[i].pc = "idle"
  /\ LET input == EmbedInput(contents)
     IN inv' = [inv EXCEPT ![i] =
          IF input = <<>>
            THEN [@ EXCEPT !.kind = "embedContent", !.pc = "done",
                           !.request = contents,
                           !.result = ErrorResult(
                              <<"No text content for embeddings">>)]
            ELSE [@ EXCEPT !.kind = "embedContent", !.pc = "embed",
                           !.request = contents,
                           !.sent = <<[prompt |-> input]>>]]
  /\ UNCHANGED <<toolsSupported, anthropicVars>>

\* part_001:452-463: the embeddings call resolves
EmbedReturns(i) ==
  /\ inv[i].pc = "embed"
  /\ inv' = [inv EXCEPT ![i] =
       [@ EXCEPT !.pc = "done", !.result = [type |-> "embedding"]]]
  /\ UNCHANGED <<toolsSupported, anthropicVars>>

\* the mutant of EmbedFails: the tools error clears the flag here too
EmbedFailsDisabling(i, error) ==
  /\ inv[i].pc = "embed"
  /\ inv' = [inv EXCEPT ![i] =
       [@ EXCEPT !.pc = "done", !.result = ErrorResult(error)]]
  /\ toolsSupported' =
       IF isToolsNotSupportedError(error) THEN FALSE ELSE toolsSupported
  /\ UNCHANGED anthropicVars

\* part_001:452: the embeddings call rejects; nothing catches the error
EmbedFails(i, error) ==
  /\ inv[i].pc = "embed"
  /\ inv' = [inv EXCEPT ![i] =
       [@ EXCEPT !.pc = "done", !.result = ErrorResult(error)]]
  /\ UNCHANGED <<toolsSupported, anthropicVars>>

(* AnthropicContentGenerator.countTokens and embedContent,
   anthropicContentGenerator.ts:313-339 *)

\* anthropicContentGenerator.ts:313-331: the same estimate, no await inside
AnthropicCountTokens(i, contents) ==
  /\ inv[i].pc = "idle"
  /\ inv' = [inv EXCEPT ![i] =
       [@ EXCEPT !.kind = "anthropic.countTokens", !.pc = "done",
                 !.request = contents,
                 !.result = [type |-> "count",
                             totalTokens |-> EstimateTokens(contents)]]]
  /\ UNCHANGED <<toolsSupported, anthropicVars>>

EmbeddingsUnsupportedError ==
  <<"Embeddings API is not supported via Anthropic module yet.">>

\* anthropicContentGenerator.ts:333-339: always throws
AnthropicEmbedContent(i, contents) ==
  /\ inv[i].pc = "idle"
  /\ inv' = [inv EXCEPT ![i] =
       [@ EXCEPT !.kind = "anthropic.embedContent", !.pc = "done",
                 !.request = contents,
                 !.result = ErrorResult(EmbeddingsUnsupportedError)]]
  /\ UNCHANGED <<toolsSupported, anthropicVars>>

----------------------------------------------------------------------------
(* Inputs *)

ToolsError == <<"registry.ollama.ai/library/gemma3", " ", ToolsPhrase>>
OtherError == <<"fetch failed">>
Errors == {ToolsError, OtherError}

Declaration(n) == [name |-> n, description |-> <<>>, parameters |-> <<>>]
FunctionTool(fds) ==
  [hasFunctionDeclarations |-> TRUE, functionDeclarations |-> fds]
\* a tool object with no functionDeclarations field, such as { googleSearch }
OtherTool == [hasFunctionDeclarations |-> FALSE, functionDeclarations |-> <<>>]

Content(role, parts) == [role |-> role, parts |-> parts]

Request(si, tools, contents, temperature) ==
  [systemInstruction |-> si, tools |-> tools, contents |-> contents,
   temperature |-> temperature]

PlainRequest ==
  Request(NoSystemInstruction, <<>>,
          <<Content("user", <<TextPart(<<"Hello">>)>>)>>, NoTemperature)

\* a turn of a tool conversation: declarations, a functionCall of the model
\* and the functionResponse to it
ToolRequest ==
  Request([kind |-> "string", text |-> <<"Be brief">>],
          <<FunctionTool(<<Declaration("ls")>>)>>,
          <<Content("model", <<FunctionCallPart("ls", <<"{}">>)>>),
            Content("user", <<FunctionResponsePart(<<"{\"ok\":1}">>),
                              TextPart(<<"next">>)>>)>>,
          NoTemperature)

SpecRequests == {ToolRequest}

SpecResponses == {BackendMessage(<<"ok">>, <<>>, 3, 2, TRUE)}

SpecChunks ==
  {BackendMessage(<<"Hi">>, <<>>, 0, 1, FALSE),
   BackendMessage(<<>>, <<>>, 2, 1, TRUE)}

SpecAnthropicResponses ==
  {[content |-> <<[type |-> "text", text |-> <<"ok">>],
                  [type |-> "tool_use", name |-> "ls", input |-> <<"{}">>,
                   id |-> "toolu_1"]>>,
    hasUsage |-> TRUE,
    input_tokens |-> Number(3), output_tokens |-> Number(2)]}

SpecCountInputs == {<<Content("user", <<TextPart(<<"12345678">>)>>)>>}

SpecEmbedInputs ==
  {[kind |-> "string", text |-> <<>>], [kind |-> "string", text |-> <<"abc">>]}

----------------------------------------------------------------------------
(* The adapter under concurrent invocations *)

\* invocations are numbered in the order in which they are made
NextToStart(i) == IF i = 1 THEN TRUE ELSE inv[i - 1].pc # "idle"

Next ==
  \E i \in Invocations :
    \/ \E r \in SpecRequests : NextToStart(i) /\ GenerateContent(i, r)
    \/ \E e \in Errors : GenerateContentFirstFails(i, e)
    \/ \E e \in Errors : GenerateContentRetryFails(i, e)
    \/ \E r \in SpecResponses : GenerateContentReturns(i, r)
    \/ \E r \in SpecRequests :
         NextToStart(i) /\ GenerateContentStream(i, FirstCopy, r)
    \/ StreamFirstPull(i)
    \/ \E e \in Errors : StreamFirstFails(i, e)
    \/ \E e \in Errors : StreamRetryFails(i, e)
    \/ StreamEstablished(i)
    \/ \E c \in SpecChunks : StreamChunk(i, c, MaxChunks)
    \/ StreamPull(i)
    \/ StreamEnds(i)
    \/ \E e \in Errors : StreamIterationFails(i, e)
    \/ StreamCancel(i)
    \/ \E r \in SpecRequests : NextToStart(i) /\ AnthropicGenerateContent(i, r)
    \/ \E ok \in BOOLEAN : AnthropicKeyLoaded(i, ok)
    \/ \E r \in SpecAnthropicResponses : AnthropicCreateReturns(i, r)
    \/ \E e \in Errors : AnthropicCreateFails(i, e)
    \/ \E c \in SpecCountInputs : NextToStart(i) /\ CountTokens(i, c)
    \/ \E c \in SpecEmbedInputs : NextToStart(i) /\ EmbedContent(i, c)
    \/ EmbedReturns(i)
    \/ \E e \in Errors : EmbedFails(i, e)
    \/ \E c \in SpecCountInputs :
         NextToStart(i) /\ AnthropicCountTokens(i, c)
    \/ \E c \in SpecEmbedInputs :
         NextToStart(i) /\ AnthropicEmbedContent(i, c)

Spec == Init /\ [][Next]_vars

----------------------------------------------------------------------------
(* One stream on its own, over the fragments a model may emit *)

OpenBrace == <<"{">>
NameMember == <<NameToken, ":", "\"foo\"", ",">>
ArgumentsMember == <<ArgumentsToken, ":", "{", "}", "}">>
\* '{"name":"foo",' and '{"name":"",' in one fragment each
CallHead == <<"{", NameToken, ":", "\"foo\"", ",">>
EmptyNameHead == <<"{", NameToken, ":", EmptyStringToken, ",">>

Fragment(text) == BackendMessage(text, <<>>, 0, 0, FALSE)
Completion(text) == BackendMessage(text, <<>>, 2, 1, TRUE)

StreamFragments ==
  {Fragment(t) : t \in {OpenBrace, NameMember, ArgumentsMember, CallHead,
                        EmptyNameHead, <<"Hello ">>, <<"world">>, <<" ">>,
                        <<>>}}
  \cup {BackendMessage(<<>>, <<[name |-> "ls", arguments |-> <<"{}">>]>>,
                       0, 0, FALSE),
         BackendMessage(<<"world">>, <<>>, 3, 2, FALSE)}
  \cup {Completion(t) : t \in {<<>>, ArgumentsMember, <<"world">>}}

\* the events of an Anthropic message stream
MessageStart(n) ==
  [type |-> "message_start", hasUsage |-> TRUE, input_tokens |-> n,
   output_tokens |-> 0, text |-> <<>>]
TextDelta(text) ==
  [type |-> "text_delta", hasUsage |-> FALSE, input_tokens |-> 0,
   output_tokens |-> 0, text |-> text]
MessageDelta(n) ==
  [type |-> "message_delta", hasUsage |-> TRUE, input_tokens |-> 0,
   output_tokens |-> n, text |-> <<>>]
ContentBlockStart ==
  [type |-> "content_block_start", hasUsage |-> FALSE, input_tokens |-> 0,
   output_tokens |-> 0, text |-> <<>>]

StreamEvents ==
  {MessageStart(3), TextDelta(<<"Hi">>), MessageDelta(1), MessageDelta(2),
   ContentBlockStart}

FinalMessage(content, hasUsage, output_tokens) ==
  [content |-> content, hasUsage |-> hasUsage,
   output_tokens |-> output_tokens]

FinalMessages ==
  {FinalMessage(<<[type |-> "text", text |-> <<"Hi">>],
                  [type |-> "tool_use", name |-> "ls", input |-> <<"{}">>,
                   id |-> "toolu_1"]>>, TRUE, 2),
   FinalMessage(<<[type |-> "text", text |-> <<"Hi">>]>>, TRUE, 1),
   FinalMessage(<<>>, FALSE, 0)}

StreamNext ==
  \/ \E copy \in {FirstCopy, SecondCopy} :
       GenerateContentStream(1, copy, PlainRequest)
  \/ StreamFirstPull(1)
  \/ StreamEstablished(1)
  \/ \E c \in StreamFragments : StreamChunk(1, c, MaxFragments)
  \/ StreamPull(1)
  \/ StreamEnds(1)
  \/ AnthropicGenerateContentStream(1, PlainRequest)
  \/ \E ok \in BOOLEAN : AnthropicStreamKeyLoaded(1, ok)
  \/ AnthropicStreamFirstPull(1)
  \/ AnthropicStreamEstablished(1)
  \/ \E e \in StreamEvents : AnthropicStreamEvent(1, e, MaxFragments)
  \/ AnthropicStreamPull(1)
  \/ AnthropicStreamEventsEnd(1)
  \/ \E m \in FinalMessages : AnthropicFinalMessage(1, m)
  \/ AnthropicStreamEnds(1)
  \/ \E e \in Errors : AnthropicStreamFails(1, e)
  \/ AnthropicStreamCancel(1)

StreamSpec == Init /\ [][StreamNext]_vars

----------------------------------------------------------------------------
(* One generation call on its own, over the requests a caller may build *)

SystemInstructions ==
  {NoSystemInstruction,
   [kind |-> "string", text |-> <<"Be brief">>],
   [kind |-> "parts", parts |-> <<TextPart(<<"a">>), TextPart(<<"b">>)>>]}

ToolLists ==
  {<<>>, <<OtherTool>>, <<FunctionTool(<<>>)>>,
   <<FunctionTool(<<Declaration("ls")>>)>>,
   <<OtherTool, FunctionTool(<<Declaration("ls"), Declaration("cat")>>)>>}

Contents ==
  {Content("user", <<TextPart(<<"Hello">>)>>),
   Content("user", <<TextPart(<<>>), OtherPart>>),
   Content("model", <<FunctionCallPart("ls", <<>>)>>),
   Content("model", <<TextPart(<<"I list">>), FunctionCallPart("ls", <<"{}">>)>>),
   Content("user", <<FunctionResponsePart(<<"{\"ok\":1}">>)>>),
   Content("user", <<FunctionResponsePart(<<>>), TextPart(<<"next">>)>>)}

RECURSIVE SeqsUpTo(_, _)
\* the sequences over S of length at most n
SeqsUpTo(S, n) ==
  IF n = 0 THEN {<<>>}
  ELSE LET shorter == SeqsUpTo(S, n - 1)
       IN shorter \cup {Append(q, x) : q \in shorter, x \in S}

\* system instructions at the edges: the empty string, no fragment, empty
\* fragments, one fragment
EdgeSystemInstructions ==
  {[kind |-> "string", text |-> <<>>],
   [kind |-> "parts", parts |-> <<>>],
   [kind |-> "parts", parts |-> <<TextPart(<<>>)>>],
   [kind |-> "parts", parts |-> <<TextPart(<<>>), TextPart(<<>>)>>],
   [kind |-> "parts", parts |-> <<TextPart(<<"a">>)>>],
   [kind |-> "parts", parts |-> <<TextPart(<<"a">>), TextPart(<<>>)>>]}

DrawnRequests ==
  {Request(si, tools, contents, NoTemperature) :
     si \in SystemInstructions, tools \in ToolLists,
     contents \in SeqsUpTo(Contents, MaxContents)}
  \cup {Request(si, <<>>, contents, NoTemperature) :
          si \in EdgeSystemInstructions, contents \in SeqsUpTo(Contents, 1)}

\* the adapters after construction, the Ollama adapter in either state of
\* its flag (Disabled: an earlier call met the tools-unsupported failure)
TranslateInit ==
  /\ toolsSupported \in BOOLEAN
  /\ anthropic = NoClient
  /\ env = NoKey
  /\ storage = [entry \in Entries |->
                  IF entry = ANTHROPIC_API_KEY_ENTRY
                    THEN Credentials(entry, "sk-stored") ELSE NoCredentials]
  /\ dialog = Mounted(<<>>)
  /\ inv = [i \in Invocations |-> Idle]

TranslateNext ==
  \/ /\ inv[1].pc = "idle"
     /\ \E r \in DrawnRequests :
          \/ GenerateContent(1, r)
          \/ GenerateContentStream(1, FirstCopy, r)
          \/ AnthropicGenerateContent(1, r)
  \/ \E e \in Errors : GenerateContentFirstFails(1, e)
  \/ \E e \in Errors : GenerateContentRetryFails(1, e)
  \/ \E r \in SpecResponses : GenerateContentReturns(1, r)
  \/ StreamFirstPull(1)
  \/ \E e \in Errors : StreamFirstFails(1, e)
  \/ \E e \in Errors : StreamRetryFails(1, e)
  \/ StreamEstablished(1)
  \/ \E ok \in BOOLEAN : AnthropicKeyLoaded(1, ok)
  \/ \E r \in SpecAnthropicResponses : AnthropicCreateReturns(1, r)
  \/ \E e \in {OtherError} : AnthropicCreateFails(1, e)

TranslateSpec == TranslateInit /\ [][TranslateNext]_vars

----------------------------------------------------------------------------
(* One countTokens or embedContent call on its own, over drawn inputs *)

CountInputs == SeqsUpTo(Contents, MaxContents)

\* request.contents of embedContent: a string, one content, or a list
EmbedInputs ==
  {[kind |-> "string", text |-> t] : t \in {<<>>, <<"abc">>}}
  \cup {[kind |-> "content", parts |-> c.parts] : c \in Contents}
  \cup {[kind |-> "array", items |-> q] : q \in SeqsUpTo(Contents, MaxContents)}

UtilityNext ==
  \/ \E c \in CountInputs : CountTokens(1, c)
  \/ \E c \in CountInputs : AnthropicCountTokens(1, c)
  \/ \E c \in EmbedInputs : EmbedContent(1, c)
  \/ EmbedReturns(1)
  \/ \E e \in Errors : EmbedFails(1, e)
  \/ \E c \in EmbedInputs : AnthropicEmbedContent(1, c)

UtilitySpec == Init /\ [][UtilityNext]_vars

----------------------------------------------------------------------------
(* Properties *)

\* a generation call on the Ollama adapter
IsGeneration(i) == inv[i].kind = "generateContent" \/ IsStream(i)
OperationOf(i) ==
  IF inv[i].kind = "generateContent" THEN "generateContent"
  ELSE "generateContentStream"

\* the payload carries nothing of tool calling
ToolFree(call) ==
  /\ call.tools = <<>>
  /\ \A k \in 1..Len(call.messages) :
       /\ call.messages[k].role # "tool"
       /\ call.messages[k].tool_calls = <<>>

\* the function declarations a request carries
DeclarationCount(request) ==
  Len(Flatten([k \in 1..Len(request.tools) |->
                 IF request.tools[k].hasFunctionDeclarations
                   THEN request.tools[k].functionDeclarations
                   ELSE <<>>]))

\* all the parts yielded by a stream so far, in order
YieldedParts(out) == Flatten([k \in 1..Len(out) |-> out[k].parts])

\* C1: the tool-support state starts Enabled and no step of any invocation,
\* in any interleaving, takes it from Disabled back to Enabled.
C1_OneWay ==
  /\ toolsSupported = TRUE
  /\ [][toolsSupported' = TRUE => toolsSupported = TRUE]_vars

\* C1 witness: the state is Disabled and an invocation made after the one that
\* disabled it has returned a response.
C1_Witness ==
  /\ ~toolsSupported
  /\ \E i, j \in Invocations :
       /\ i < j /\ inv[i].flipped
       /\ inv[j].pc = "done" /\ inv[j].result.type = "response"

\* C2: when the first backend call of a generation call fails with the
\* tools-unsupported error while the state is Enabled, the state becomes
\* Disabled and exactly one further call is issued; no invocation issues more
\* than two calls; and each return of a backend call either ends the
\* invocation (response, error, or the established stream) or, for the first
\* call only, issues the one retry.
C2_RetryOnce ==
  [][\A i \in Invocations :
       /\ Len(inv'[i].sent) <= 2
       /\ (IsGeneration(i) /\ inv[i].pc = "chat" /\ inv'[i].pc # "chat") =>
            IF isToolsNotSupportedError(inv'[i].err) /\ toolsSupported
              THEN /\ ~toolsSupported'
                   /\ inv'[i].pc = "retry"
                   /\ Len(inv'[i].sent) = Len(inv[i].sent) + 1
              ELSE /\ inv'[i].pc \in {"done", "iter"}
                   /\ inv'[i].sent = inv[i].sent
       /\ (IsGeneration(i) /\ inv[i].pc = "retry" /\ inv'[i].pc # "retry") =>
            /\ inv'[i].pc \in {"done", "iter"}
            /\ inv'[i].sent = inv[i].sent
       /\ (inv'[i].kind = "generateContent" /\ inv'[i].pc = "done") =>
            inv'[i].result.type \in {"response", "error"}
    ]_vars

\* C2 witness: an invocation retried after the tools-unsupported error and
\* has ended, with two backend calls issued.
C2_Witness ==
  \E i \in Invocations :
    inv[i].flipped /\ inv[i].pc = "done" /\ Len(inv[i].sent) = 2

\* C3 (as claimed): the request of the retry is the tool-free retranslation of
\* the original request, in generateContent and in generateContentStream.
C3_RetryIsToolFree ==
  \A i \in Invocations :
    (IsGeneration(i) /\ Len(inv[i].sent) = 2) =>
      /\ ToolFree(inv[i].sent[2])
      /\ inv[i].sent[2].messages =
           mapGeminiParamsToOllama(inv[i].request, FALSE).messages

\* C4: the translated request carries tool declarations iff the state is
\* Enabled and the request carries at least one declaration; translating the
\* same request once the state is Disabled gives no tool declaration and no
\* tool-result message.
C4_ToolsIffEnabled ==
  \A i \in Invocations :
    IsGeneration(i) =>
      LET first == IF inv[i].sent = <<>> THEN inv[i] ELSE inv[i].sent[1]
          again == mapGeminiParamsToOllama(inv[i].request, toolsSupported)
      IN /\ (first.tools # <<>>) <=>
              (inv[i].supportedAtCall /\ DeclarationCount(inv[i].request) > 0)
         /\ Len(first.tools) =
              IF inv[i].supportedAtCall
                THEN DeclarationCount(inv[i].request) ELSE 0
         /\ ~toolsSupported =>
              /\ again.tools = <<>>
              /\ \A k \in 1..Len(again.messages) :
                   again.messages[k].role # "tool"

\* C4 witness: a request with declarations and a functionResponse was
\* translated with declarations, and the state is Disabled since.
C4_Witness ==
  /\ ~toolsSupported
  /\ IsGeneration(1)
  /\ inv[1].sent # <<>> /\ inv[1].sent[1].tools # <<>>
  /\ \E k \in 1..Len(inv[1].sent[1].messages) :
       inv[1].sent[1].messages[k].role = "tool"

\* the message names the backend and ends with the original message
CarriesBackendAndMessage(msg, backend, operation, original) ==
  msg = <<backend, " " \o operation, " failed: ">> \o original

\* C5: a backend failure that is not the tools-unsupported error, or that
\* happens while the state is already Disabled (a failed retry included),
\* issues no further backend call, leaves the state unchanged and ends the
\* invocation with an error carrying the backend name and the original message.
C5_OtherFailuresPropagate ==
  [][\A i \in Invocations :
       LET propagated(error) ==
             /\ toolsSupported' = toolsSupported
             /\ inv'[i].sent = inv[i].sent
             /\ inv'[i].pc = "done"
             /\ inv'[i].result.type = "error"
             /\ CarriesBackendAndMessage(inv'[i].result.msg, "Ollama",
                                         OperationOf(i), error)
           notRetried(error) ==
             ~isToolsNotSupportedError(error) \/ ~toolsSupported
       IN /\ ( /\ IsGeneration(i) /\ inv[i].pc = "chat"
               /\ inv'[i].err # <<>> /\ notRetried(inv'[i].err) )
             => propagated(inv'[i].err)
          /\ ( /\ IsGeneration(i) /\ inv[i].pc = "retry"
               /\ inv'[i].retryErr # <<>> )
             => propagated(inv'[i].retryErr)
          /\ ( /\ IsStream(i) /\ inv[i].pc = "iter"
               /\ inv'[i].streamErr # <<>> /\ notRetried(inv'[i].streamErr) )
             => propagated(inv'[i].streamErr)
          /\ ( /\ inv[i].kind = "anthropic.generateContent"
               /\ inv[i].pc = "create" /\ inv'[i].err # <<>> )
             => /\ toolsSupported' = toolsSupported
                /\ inv'[i].sent = inv[i].sent
                /\ inv'[i].pc = "done"
                /\ inv'[i].result.type = "error"
                /\ CarriesBackendAndMessage(inv'[i].result.msg, "Anthropic",
                                            "generateContent", inv'[i].err)
    ]_vars

\* C5 witness: an Ollama call failed with the tools-unsupported error while
\* the state was already Disabled (by another call) and ended with the wrapped
\* error after its single backend call.
C5_Witness ==
  \E i \in Invocations :
    /\ IsGeneration(i)
    /\ inv[i].pc = "done" /\ inv[i].result.type = "error"
    /\ isToolsNotSupportedError(inv[i].err) /\ ~inv[i].flipped
    /\ Len(inv[i].sent) = 1

\* C6: when the tool-free retry fails too, the caller gets the retry's error,
\* wrapped with the backend name, two calls were issued and no more, and the
\* state is Disabled.
C6_RetryErrorPropagates ==
  \A i \in Invocations :
    (IsGeneration(i) /\ inv[i].retryErr # <<>>) =>
      /\ inv[i].pc = "done"
      /\ inv[i].result.type = "error"
      /\ CarriesBackendAndMessage(inv[i].result.msg, "Ollama", OperationOf(i),
                                  inv[i].retryErr)
      /\ Len(inv[i].sent) = 2
      /\ ~toolsSupported

\* C6 witness: a retry failed with an error that differs from the first one.
C6_Witness ==
  \E i \in Invocations :
    /\ inv[i].retryErr = OtherError /\ inv[i].err = ToolsError
    /\ inv[i].pc = "done"

\* C7 (as claimed): a tools-unsupported failure raised while the chunk stream
\* is consumed, with the state Enabled, sets the state to Disabled and
\* restarts the stream with one more, tool-free, backend call.
C7_MidStreamFailureRestarts ==
  [][\A i \in Invocations :
       ( /\ IsStream(i) /\ inv[i].pc = "iter" /\ toolsSupported
         /\ isToolsNotSupportedError(inv'[i].streamErr) )
       => /\ ~toolsSupported'
          /\ inv'[i].pc = "retry"
          /\ Len(inv'[i].sent) = Len(inv[i].sent) + 1
          /\ ToolFree(inv'[i].sent[Len(inv'[i].sent)])
    ]_vars

\* C8: at the step in which a stream performs the tools-unsupported retry
\* (clearing the flag), it has yielded no chunk to its consumer.
C8_RetryBeforeFirstChunk ==
  [][\A i \in Invocations :
       (IsStream(i) /\ ~inv[i].flipped /\ inv'[i].flipped) =>
         /\ inv[i].out = <<>> /\ inv'[i].out = <<>>
         /\ inv[i].fed = <<>>
    ]_vars

\* C8 witness: a stream that retried has since yielded a chunk.
C8_Witness ==
  \E i \in Invocations : IsStream(i) /\ inv[i].flipped /\ inv[i].out # <<>>

\* the fragments '{', '"name":"foo",', '"arguments":{}}' and the completion
HallucinatedCall ==
  <<Fragment(OpenBrace), Fragment(NameMember), Fragment(ArgumentsMember),
    Completion(<<>>)>>

\* C9: streaming '{', '"name":"foo",', '"arguments":{}}' and then the
\* completion yields no text part at all and exactly one functionCall part,
\* named foo, with empty arguments.
C9_HallucinatedCallRescued ==
  (inv[1].kind = FirstCopy /\ inv[1].fed = HallucinatedCall) =>
    /\ SelectSeq(YieldedParts(inv[1].out), HasText) = <<>>
    /\ YieldedParts(inv[1].out) =
         <<FunctionCallPart(JsonString("\"foo\""), JsonObject(<<>>))>>

\* the parts the step has added to what the stream yielded
NewlyYielded(i) ==
  YieldedParts(SubSeq(inv'[i].out, Len(inv[i].out) + 1, Len(inv'[i].out)))

\* C10: while a stream of text fragments has not become potentially-JSON, each
\* fragment is yielded as one text part, whole, in the chunk in which it
\* arrives (so in arrival order), and no functionCall part is yielded.
C10_PlainTextIncremental ==
  [][\A i \in Invocations :
       ( /\ IsStream(i) /\ Len(inv'[i].fed) = Len(inv[i].fed) + 1
         /\ ~inv'[i].isPotentiallyJson
         /\ \A k \in 1..Len(inv'[i].fed) : inv'[i].fed[k].tool_calls = <<>> )
       => LET chunk == inv'[i].fed[Len(inv'[i].fed)]
          IN /\ NewlyYielded(i) =
                  IF chunk.content # <<>> THEN <<TextPart(chunk.content)>>
                  ELSE <<>>
             /\ SelectSeq(YieldedParts(inv'[i].out), HasFunctionCall) = <<>>
    ]_vars

\* C10 witness: 'Hello ', 'world' and the completion were streamed and the
\* two text parts were yielded in that order.
C10_Witness ==
  /\ inv[1].fed = <<Fragment(<<"Hello ">>), Fragment(<<"world">>),
                    Completion(<<>>)>>
  /\ YieldedParts(inv[1].out) =
       <<TextPart(<<"Hello ">>), TextPart(<<"world">>)>>
  /\ Len(inv[1].out) = 3

\* C11: once the accumulator of a stream is classified potentially-JSON, the
\* classification stays, and every chunk that is not the completion chunk has
\* its text withheld: it is appended to the accumulator and no text part is
\* yielded.
C11_WithheldOnceClassified ==
  [][\A i \in Invocations :
       (IsStream(i) /\ Len(inv'[i].fed) = Len(inv[i].fed) + 1) =>
         LET chunk == inv'[i].fed[Len(inv'[i].fed)]
         IN /\ inv[i].isPotentiallyJson => inv'[i].isPotentiallyJson
            /\ (inv'[i].isPotentiallyJson /\ ~chunk.done) =>
                 /\ SelectSeq(NewlyYielded(i), HasText) = <<>>
                 /\ inv'[i].accumulatedText =
                      inv[i].accumulatedText \o chunk.content
    ]_vars

\* C11 witness: a stream was classified on '{"name":"foo",' and a later
\* fragment was withheld: nothing was yielded for the two of them.
C11_Witness ==
  /\ inv[1].fed = <<Fragment(CallHead), Fragment(<<"world">>)>>
  /\ inv[1].isPotentiallyJson
  /\ inv[1].out = <<>>
  /\ inv[1].accumulatedText = CallHead \o <<"world">>

\* the object has a member of that key, whatever its value
HasField(v, key) == Property(v, key) # JsonUndefined

\* the step feeds stream i its completion chunk while the accumulator,
\* with the chunk's own text, is potentially-JSON and not blank
CompletesClassified(i) ==
  /\ IsStream(i) /\ Len(inv'[i].fed) = Len(inv[i].fed) + 1
  /\ inv'[i].fed[Len(inv'[i].fed)].done
  /\ inv'[i].isPotentiallyJson
  /\ Trim(inv[i].accumulatedText
          \o inv'[i].fed[Len(inv'[i].fed)].content) # <<>>

\* C12 as stated: on the completion chunk with a non-empty potentially-JSON
\* accumulator, a parse that has both a name and an arguments field gives one
\* synthesized functionCall part and no raw text, anything else gives the
\* accumulator as one text part, and the step yields instead of failing.
C12_RescueOnBothFields ==
  [][\A i \in Invocations :
       CompletesClassified(i) =>
         LET chunk == inv'[i].fed[Len(inv'[i].fed)]
             acc == inv[i].accumulatedText \o chunk.content
             parsed == JSONparse(Trim(acc))
             name == Property(parsed.value, NameToken)
             arguments == Property(parsed.value, ArgumentsToken)
         IN /\ inv'[i].pc = "yield"
            /\ NewlyYielded(i) =
                 ToolCallParts(chunk.tool_calls)
                 \o (IF /\ parsed.ok
                         /\ HasField(parsed.value, NameToken)
                         /\ HasField(parsed.value, ArgumentsToken)
                       THEN <<FunctionCallPart(name, arguments)>>
                       ELSE <<TextPart(acc)>>)
    ]_vars

\* C12 as amended: the functionCall part is synthesized when the parse gives a
\* name and an arguments that are both truthy (an empty string is not); a
\* parse failure, a missing field or a falsy one gives the accumulator as one
\* text part; the step yields instead of failing.
C12_RescueOnTruthyFields ==
  [][\A i \in Invocations :
       CompletesClassified(i) =>
         LET chunk == inv'[i].fed[Len(inv'[i].fed)]
             acc == inv[i].accumulatedText \o chunk.content
             parsed == JSONparse(Trim(acc))
             name == Property(parsed.value, NameToken)
             arguments == Property(parsed.value, ArgumentsToken)
         IN /\ inv'[i].pc = "yield"
            /\ NewlyYielded(i) =
                 ToolCallParts(chunk.tool_calls)
                 \o (IF parsed.ok /\ Truthy(name) /\ Truthy(arguments)
                       THEN <<FunctionCallPart(name, arguments)>>
                       ELSE <<TextPart(acc)>>)
    ]_vars

\* C12 witness: '{"name":"",' then the completion chunk with
\* '"arguments":{}}': the accumulator parses, its name is empty, and it was
\* yielded as one text part.
C12_Witness ==
  /\ inv[1].fed = <<Fragment(EmptyNameHead), Completion(ArgumentsMember)>>
  /\ JSONparse(EmptyNameHead \o ArgumentsMember).ok
  /\ YieldedParts(inv[1].out) = <<TextPart(EmptyNameHead \o ArgumentsMember)>>

\* the chunks of `out` that carry the terminal marker
Terminal(out) == {k \in 1..Len(out) : out[k].finishReason = "STOP"}

C14_AnthropicLastChunkTerminal ==
  \A i \in Invocations :
    ( /\ inv[i].kind = AnthropicStream
      /\ inv[i].pc = "done" /\ inv[i].result.type = "completed"
      /\ inv[i].out # <<>> )
    => inv[i].out[Len(inv[i].out)].finishReason = "STOP"

\* C15: across the chunks one stream yields, in the order in which it yields
\* them, promptTokenCount, candidatesTokenCount and totalTokenCount never
\* decrease, whatever counts the backend reports.
C15_UsageNonDecreasing ==
  \A i \in Invocations :
    (IsStream(i) \/ inv[i].kind = AnthropicStream) =>
      \A k \in 1..(Len(inv[i].out) - 1) :
        /\ inv[i].out[k].promptTokenCount <= inv[i].out[k + 1].promptTokenCount
        /\ inv[i].out[k].candidatesTokenCount
             <= inv[i].out[k + 1].candidatesTokenCount
        /\ inv[i].out[k].totalTokenCount <= inv[i].out[k + 1].totalTokenCount

\* generation call i was translated while the state was Enabled and its first
\* backend call has failed with the tools error
FailedWithToolsWhileEnabled(i) ==
  /\ IsGeneration(i) /\ inv[i].supportedAtCall
  /\ inv[i].err # <<>> /\ isToolsNotSupportedError(inv[i].err)

\* C16: of two invocations translated while Enabled whose calls both failed
\* with the tools error, the one that flipped the state to Disabled has issued
\* one retry, which is tool-free; the other has ended with its error, wrapped,
\* after its single call, and has flipped nothing.
C16_FirstErrorFlips ==
  \A i, j \in Invocations :
    ( /\ i # j
      /\ FailedWithToolsWhileEnabled(i) /\ FailedWithToolsWhileEnabled(j)
      /\ inv[i].flipped )
    => /\ toolsSupported = FALSE
       /\ Len(inv[i].sent) = 2
       /\ ToolFree(inv[i].sent[2])
       /\ ~inv[j].flipped /\ inv[j].pc = "done"
       /\ Len(inv[j].sent) = 1
       /\ inv[j].result = ErrorResult(WrapError(OperationOf(j), inv[j].err))

\* stream i set the state to Disabled and was then stopped by its consumer
CancelledAfterFlip(i) ==
  /\ IsStream(i) /\ inv[i].flipped
  /\ inv[i].pc = "done" /\ inv[i].result.type = "cancelled"

\* C17: the step in which a consumer stops a stream leaves the tool-support
\* state as it is; once a stream that disabled tool support was stopped the
\* state is Disabled in every later state; and a generation call made after
\* that is translated from the Disabled state: without tool declarations,
\* tool-result messages or tool calls.
C17_CancelKeepsDisabled ==
  [][\A i \in Invocations :
       /\ ( /\ IsStream(i) /\ inv[i].pc # "done" /\ inv'[i].pc = "done"
            /\ inv'[i].result.type = "cancelled" )
          => toolsSupported' = toolsSupported
       /\ CancelledAfterFlip(i) =>
            /\ toolsSupported = FALSE /\ toolsSupported' = FALSE
            /\ \A j \in Invocations :
                 ( /\ inv[j].pc = "idle"
                   /\ inv'[j].kind \in {"generateContent", FirstCopy,
                                        SecondCopy} )
                 => /\ ~inv'[j].supportedAtCall
                    /\ ToolFree([tools |-> inv'[j].tools,
                                 messages |-> inv'[j].messages])
    ]_vars

\* C17 witness: a stream retried without tools, yielded a chunk and was
\* stopped; a generation call made afterwards has got its response from its
\* single backend call.
C17_Witness ==
  \E i, j \in Invocations :
    /\ CancelledAfterFlip(i) /\ inv[i].out # <<>>
    /\ inv[j].kind = "generateContent" /\ ~inv[j].supportedAtCall
    /\ inv[j].pc = "done" /\ inv[j].result.type = "response"
    /\ Len(inv[j].sent) = 1

UtilityKinds ==
  {"countTokens", "embedContent", "anthropic.countTokens",
   "anthropic.embedContent"}

\* C18: a step of a countTokens or embedContent call, of either adapter,
\* whether it starts the call, ends it with a result or ends it with an error,
\* changes neither the tool-support state nor the cached client, the
\* environment, the key storage or any other invocation.
C18_UtilitiesChangeNothingShared ==
  [][\A i \in Invocations :
       (inv'[i] # inv[i] /\ inv'[i].kind \in UtilityKinds) =>
         /\ toolsSupported' = toolsSupported
         /\ anthropic' = anthropic /\ env' = env /\ storage' = storage
         /\ \A j \in Invocations \ {i} : inv'[j] = inv[j]
    ]_vars

\* C18 witness: while a generation call awaits its backend call, an
\* embedContent call has failed with a tools-unsupported error from the
\* backend, and the state is still Enabled.
C18_Witness ==
  \E i, j \in Invocations :
    /\ inv[i].kind = "generateContent" /\ inv[i].pc = "chat"
    /\ inv[j].kind = "embedContent" /\ inv[j].pc = "done"
    /\ inv[j].result = ErrorResult(ToolsError)
    /\ toolsSupported = TRUE

\* no part of the embedContent input carries text
NoExtractableText(contents) ==
  IF contents.kind = "string" THEN contents.text = <<>>
  ELSE IF contents.kind = "content"
    THEN \A j \in 1..Len(contents.parts) : ~HasText(contents.parts[j])
  ELSE \A k \in 1..Len(contents.items) :
         \A j \in 1..Len(contents.items[k].parts) :
           ~HasText(contents.items[k].parts[j])

\* C19: an embedContent call, of either adapter, whose input has no
\* extractable text (an empty string, a content or a list of contents whose
\* parts carry no text) has ended with an error and has issued no backend
\* call.
C19_EmbedWithoutTextFails ==
  \A i \in Invocations :
    ( /\ inv[i].kind \in {"embedContent", "anthropic.embedContent"}
      /\ NoExtractableText(inv[i].request) )
    => /\ inv[i].pc = "done" /\ inv[i].result.type = "error"
       /\ inv[i].sent = <<>>

\* the text of one part as the claim counts it: the text of a text part, the
\* stringified payload of a functionCall or functionResponse part
CountedText(p) ==
  IF p.t = "text" THEN p.text
  ELSE IF HasFunctionCall(p) THEN StringifyFunctionCall(p)
  ELSE StringifyOrEmptyObject(p.response)

\* the counted texts of all the parts of all the messages, joined by spaces
SpaceSeparatedText(contents) ==
  JoinWith(Flatten([k \in 1..Len(contents) |->
                      [j \in 1..Len(contents[k].parts) |->
                         CountedText(contents[k].parts[j])]]),
           <<" ">>)

\* C20: countTokens, of either adapter, returns ceil(N / 4), N being the
\* number of characters of the space-separated concatenation of every text
\* part and every stringified functionCall and functionResponse payload of the
\* request's messages.
C20_CountIsCeilOfQuarter ==
  \A i \in Invocations :
    ( /\ inv[i].kind \in {"countTokens", "anthropic.countTokens"}
      /\ inv[i].pc = "done" )
    => inv[i].result.totalTokens =
         (CharLen(SpaceSeparatedText(inv[i].request)) + 3) \div 4

----------------------------------------------------------------------------
(* The API-key storage functions, anthropicContentGenerator.ts:357-467.    *)
(* Each function exists twice, once per entry of the store; `fn` names the *)
(* function called and EntryOf(fn) the entry it addresses.                 *)

LoadFunctions == {"loadApiKey", "loadAnthropicApiKey"}
SaveFunctions == {"saveApiKey", "saveAnthropicApiKey"}
ClearFunctions == {"clearApiKey", "clearAnthropicApiKey"}

\* anthropicContentGenerator.ts:353, 416: the entry a function addresses
EntryOf(fn) ==
  IF fn \in {"loadApiKey", "saveApiKey", "clearApiKey"}
    THEN DEFAULT_API_KEY_ENTRY
    ELSE ANTHROPIC_API_KEY_ENTRY

\* String.prototype.trim on a key: a key of white space trims to ''
TrimKey(apiKey) == IF apiKey = " " THEN "" ELSE apiKey

\* a function that returned without a value
Returned == [type |-> "returned"]
\* a function that returned `value` (NoKey: null)
ReturnedValue(value) == [type |-> "value", value |-> value]

\* the invocations that have completed
Done == {k \in Invocations : inv[k].pc = "done"}

\* the rejection of a store operation
StoreError == <<"keychain unavailable">>

\* anthropicContentGenerator.ts:360-362, 418-420: the call, up to the await
\* of storage.getCredentials
LoadApiKey(i, fn) ==
  /\ inv[i].pc = "idle"
  /\ fn \in LoadFunctions
  /\ inv' = [inv EXCEPT ![i] =
       [@ EXCEPT !.kind = fn, !.pc = "get", !.after = Done]]
  /\ UNCHANGED <<toolsSupported, anthropicVars>>

\* anthropicContentGenerator.ts:362-373, 420-431: getCredentials resolves
\* (ok) with the entry's credentials, whose accessToken is returned if truthy
\* and null if not, or rejects, which is logged and null returned
LoadSettles(i, ok) ==
  /\ inv[i].kind \in LoadFunctions /\ inv[i].pc = "get"
  /\ LET credentials == storage[EntryOf(inv[i].kind)]
     IN inv' = [inv EXCEPT ![i] =
          [@ EXCEPT !.pc = "done",
                    !.err = IF ok THEN <<>> ELSE StoreError,
                    !.result =
                      IF ok /\ credentials.accessToken # NoKey
                        THEN ReturnedValue(credentials.accessToken)
                        ELSE ReturnedValue(NoKey)]]
  /\ UNCHANGED <<toolsSupported, anthropicVars>>

\* anthropicContentGenerator.ts:379-402, 434-458: the call, up to the await
\* of storage.deleteCredentials (no key given) or of storage.setCredentials
SaveApiKey(i, fn, apiKey) ==
  /\ inv[i].pc = "idle"
  /\ fn \in SaveFunctions
  /\ inv' = [inv EXCEPT ![i] =
       [@ EXCEPT !.kind = fn, !.request = apiKey, !.after = Done,
                 !.pc = IF apiKey = NoKey \/ TrimKey(apiKey) = ""
                          THEN "delete" ELSE "set"]]
  /\ UNCHANGED <<toolsSupported, anthropicVars>>

\* anthropicContentGenerator.ts:402, 458: setCredentials resolves, the entry
\* holding the key, or rejects, and the rejection leaves the function
SaveSettles(i, ok) ==
  /\ inv[i].kind \in SaveFunctions /\ inv[i].pc = "set"
  /\ IF ok
       THEN /\ storage' = [storage EXCEPT ![EntryOf(inv[i].kind)] =
                 Credentials(EntryOf(inv[i].kind), inv[i].request)]
            /\ inv' = [inv EXCEPT ![i] =
                 [@ EXCEPT !.pc = "done", !.result = Returned]]
       ELSE /\ inv' = [inv EXCEPT ![i] =
                 [@ EXCEPT !.pc = "done", !.err = StoreError,
                           !.result = ErrorResult(StoreError)]]
            /\ UNCHANGED storage
  /\ UNCHANGED <<toolsSupported, anthropic, env, dialog>>

\* anthropicContentGenerator.ts:408-410, 461-463: the call, up to the await
\* of storage.deleteCredentials
ClearApiKey(i, fn) ==
  /\ inv[i].pc = "idle"
  /\ fn \in ClearFunctions
  /\ inv' = [inv EXCEPT ![i] =
       [@ EXCEPT !.kind = fn, !.pc = "delete", !.after = Done]]
  /\ UNCHANGED <<toolsSupported, anthropicVars>>

\* the mutant of DeleteSettles: the rejection of deleteCredentials is thrown
DeleteSettlesThrowing(i, ok) ==
  /\ inv[i].kind \in SaveFunctions \cup ClearFunctions
  /\ inv[i].pc = "delete"
  /\ IF ok
       THEN /\ storage' = [storage EXCEPT ![EntryOf(inv[i].kind)] =
                 NoCredentials]
            /\ inv' = [inv EXCEPT ![i] =
                 [@ EXCEPT !.pc = "done", !.result = Returned]]
       ELSE /\ inv' = [inv EXCEPT ![i] =
                 [@ EXCEPT !.pc = "done", !.err = StoreError,
                           !.result = ErrorResult(StoreError)]]
            /\ UNCHANGED storage
  /\ UNCHANGED <<toolsSupported, anthropic, env, dialog>>

\* anthropicContentGenerator.ts:383-389, 409-413, 438-446, 462-466:
\* deleteCredentials resolves, the entry gone, or rejects, which is logged
\* and the function returns all the same, the entry as it was
DeleteSettles(i, ok) ==
  /\ inv[i].kind \in SaveFunctions \cup ClearFunctions
  /\ inv[i].pc = "delete"
  /\ IF ok
       THEN storage' = [storage EXCEPT ![EntryOf(inv[i].kind)] =
              NoCredentials]
       ELSE UNCHANGED storage
  /\ inv' = [inv EXCEPT ![i] =
       [@ EXCEPT !.pc = "done", !.err = IF ok THEN <<>> ELSE StoreError,
                 !.result = Returned]]
  /\ UNCHANGED <<toolsSupported, anthropic, env, dialog>>

----------------------------------------------------------------------------
(* The storage functions and the Anthropic adapter's key resolution, over  *)
(* every environment and every content of the store                        *)

EnvKeys == {NoKey, "sk-env"}
StoredKeys == {NoKey, "sk-stored"}
SavedKeys == {NoKey, " ", "sk-new"}

CredentialInit ==
  /\ toolsSupported = TRUE
  /\ anthropic = NoClient
  /\ env \in EnvKeys
  /\ storage \in [Entries -> {NoCredentials}
                               \cup {Credentials(e, "sk-stored") : e \in Entries}]
  /\ \A e \in Entries : storage[e].serverName \in {"", e}
  /\ dialog = Mounted(<<>>)
  /\ inv = [i \in Invocations |-> Idle]

CredentialNext ==
  \E i \in Invocations :
    \/ /\ NextToStart(i)
       /\ \/ \E fn \in LoadFunctions : LoadApiKey(i, fn)
          \/ \E fn \in SaveFunctions, apiKey \in SavedKeys :
               SaveApiKey(i, fn, apiKey)
          \/ \E fn \in ClearFunctions : ClearApiKey(i, fn)
          \/ AnthropicGenerateContent(i, PlainRequest)
          \/ AnthropicGenerateContentStream(i, PlainRequest)
    \/ \E ok \in BOOLEAN : LoadSettles(i, ok)
    \/ \E ok \in BOOLEAN : SaveSettles(i, ok)
    \/ \E ok \in BOOLEAN : DeleteSettles(i, ok)
    \/ \E ok \in BOOLEAN : AnthropicKeyLoaded(i, ok)
    \/ \E response \in SpecAnthropicResponses :
         AnthropicCreateReturns(i, response)
    \/ \E error \in {OtherError} : AnthropicCreateFails(i, error)
    \/ \E ok \in BOOLEAN : AnthropicStreamKeyLoaded(i, ok)
    \/ AnthropicStreamFirstPull(i)

CredentialSpec == CredentialInit /\ [][CredentialNext]_vars

----------------------------------------------------------------------------
(* Properties of the API-key storage functions *)

\* every save of the entry that `fn` addresses had completed when invocation
\* i was made
NoSaveSince(i) ==
  \A k \in Invocations :
    inv[k].kind \in SaveFunctions /\ EntryOf(inv[k].kind) = EntryOf(inv[i].kind)
      => k \in inv[i].after

\* C21: a load of a key made after a clear of that key has completed (with
\* no save of the key since the clear was called) returns null, never the
\* value stored before, whether or not the store's delete failed
C21_LoadAfterClearIsAbsent ==
  \A i, j \in Invocations :
    ( /\ inv[i].kind \in ClearFunctions
      /\ inv[j].kind \in LoadFunctions
      /\ EntryOf(inv[j].kind) = EntryOf(inv[i].kind)
      /\ i \in inv[j].after
      /\ NoSaveSince(i)
      /\ inv[j].pc = "done" )
    => inv[j].result = ReturnedValue(NoKey)

\* the store operation that invocation i awaited was rejected
StoreFailed(i) == inv[i].pc = "done" /\ inv[i].err = StoreError

\* invocation i is a save that took the delete branch (no key to save)
IsDeletingSave(i) ==
  inv[i].kind \in SaveFunctions /\ TrimKey(inv[i].request) = ""

\* C22: a rejection of the store's get or delete never leaves loadApiKey,
\* loadAnthropicApiKey, clearApiKey, clearAnthropicApiKey or the delete
\* branch of saveApiKey / saveAnthropicApiKey: the load returns null, the
\* clear and the deleting save return normally
C22_GetAndDeleteFailuresAreSwallowed ==
  \A i \in Invocations :
    /\ inv[i].kind \in LoadFunctions /\ StoreFailed(i)
         => inv[i].result = ReturnedValue(NoKey)
    /\ (inv[i].kind \in ClearFunctions \/ IsDeletingSave(i)) /\ StoreFailed(i)
         => inv[i].result = Returned

C22_Witness ==
  \E i, j \in Invocations :
    /\ inv[i].kind \in LoadFunctions /\ StoreFailed(i)
    /\ IsDeletingSave(j) /\ StoreFailed(j)

----------------------------------------------------------------------------
(* Properties of the Anthropic adapter's key resolution *)

AnthropicGenerations == {"anthropic.generateContent", AnthropicStream}

\* invocation i awaits loadAnthropicApiKey
ConsultsStore(i) ==
  inv[i].kind \in AnthropicGenerations /\ inv[i].pc = "loadKey"

\* C23: the Anthropic adapter takes its key from the environment first: the
\* store is consulted only when the environment holds none, and when the
\* environment holds a key the client and every backend call use that key,
\* whatever the store holds
C23_EnvironmentKeyFirst ==
  /\ \A i \in Invocations : ConsultsStore(i) => env = NoKey
  /\ env # NoKey =>
       /\ anthropic # NoClient => anthropic.apiKey = env
       /\ \A i \in Invocations :
            inv[i].kind \in AnthropicGenerations =>
              \A k \in 1..Len(inv[i].sent) : inv[i].sent[k].apiKey = env

C23_Witness ==
  /\ env # NoKey
  /\ storage[ANTHROPIC_API_KEY_ENTRY].accessToken \notin {NoKey, env}
  /\ anthropic = [apiKey |-> env]
  /\ \E i \in Invocations :
       inv[i].kind = "anthropic.generateContent" /\ Len(inv[i].sent) = 1

\* invocation i has failed with the missing-key error
FailedWithMissingKey(i) ==
  /\ inv[i].kind \in AnthropicGenerations
  /\ inv[i].pc = "done"
  /\ inv[i].result \in
       {ErrorResult(MissingKeyError),
        ErrorResult(WrapAnthropicError("generateContent", MissingKeyError))}

\* C24: when neither the environment nor the store provides a key,
\* generateContent and generateContentStream fail with the missing-key error;
\* an invocation that failed so has issued no backend call, then or later;
\* the failing step caches no client, and a call made while no client is
\* cached resolves the key again (from the environment, else from the store)
C24_MissingKeyFailsWithoutCall ==
  /\ [](\A i \in Invocations : FailedWithMissingKey(i) => inv[i].sent = <<>>)
  /\ [][\A i \in Invocations :
          /\ ConsultsStore(i) /\ ~ConsultsStore(i)'
               => /\ storage[ANTHROPIC_API_KEY_ENTRY].accessToken = NoKey
                       => FailedWithMissingKey(i)'
                  /\ FailedWithMissingKey(i)' => anthropic' = anthropic
          /\ ( /\ inv[i].pc = "idle"
               /\ inv'[i].kind \in AnthropicGenerations
               /\ anthropic = NoClient )
               => IF env = NoKey THEN ConsultsStore(i)'
                                 ELSE anthropic' = [apiKey |-> env]
     ]_vars

\* neither source holds a key: a generateContent call fails for want of one,
\* no client is cached, and a generateContentStream call made after it
\* resolves the key again and fails likewise
C24_Witness ==
  /\ env = NoKey
  /\ storage[ANTHROPIC_API_KEY_ENTRY] = NoCredentials
  /\ anthropic = NoClient
  /\ inv[1].kind = "anthropic.generateContent" /\ FailedWithMissingKey(1)
  /\ inv[2].kind = AnthropicStream /\ FailedWithMissingKey(2)

----------------------------------------------------------------------------
(* AnthropicAuthDialog, part_000:25-148: the clear of the stored key.      *)
(* A key press and the unmount of the dialog are tasks of the event loop;  *)
(* the reactions of promises are microtasks, which all run before the next *)
(* task starts.                                                            *)

\* the result of a handleClear whose then-callback has emptied the buffer
Reset == [type |-> "reset"]
\* the result of a handleClear whose catch-callback has run
Failed == [type |-> "failed"]
\* the result of a handleClear whose wrappedPromise never settles
NeverSettles == [type |-> "never settles"]

\* a reaction of a promise of some handleClear is queued
MicrotasksPending ==
  \E k \in Invocations :
    inv[k].kind = "handleClear" /\ inv[k].pc \in {"cleared", "resolved"}

\* part_000:52-53: the tokens left by the input filter, which keeps the
\* characters a-z, A-Z, 0-9, _ and -
inputFilter(text) == SelectSeq(text, LAMBDA tok : tok \notin {" ", "\n", "."})

\* part_000:45-55, 128-133: the user types or pastes `text` over the buffer
TypeKey(text) ==
  /\ dialog.mounted
  /\ ~MicrotasksPending
  /\ dialog' = [dialog EXCEPT !.buffer = inputFilter(text)]
  /\ UNCHANGED <<toolsSupported, anthropic, env, storage, inv>>

\* part_000:61-85, 87-96: the clear key is pressed: the pending clear, if
\* any, is cancelled; clearAnthropicApiKey is called and runs up to its await
\* of storage.deleteCredentials; this clear becomes the pending one
HandleClear(i) ==
  /\ inv[i].pc = "idle"
  /\ dialog.mounted
  /\ ~MicrotasksPending
  /\ inv' = [k \in Invocations |->
       IF k = i
         THEN [inv[k] EXCEPT !.kind = "handleClear", !.pc = "delete",
                             !.isCancelled = FALSE, !.after = Done]
       ELSE IF k = dialog.pendingPromise
         THEN [inv[k] EXCEPT !.isCancelled = TRUE]
         ELSE inv[k]]
  /\ dialog' = [dialog EXCEPT !.pendingPromise = i]
  /\ UNCHANGED <<toolsSupported, anthropic, env, storage>>

\* part_000:36-41: the dialog unmounts and the effect's cleanup cancels the
\* pending clear
Unmount ==
  /\ dialog.mounted
  /\ ~MicrotasksPending
  /\ dialog' = [dialog EXCEPT !.mounted = FALSE]
  /\ inv' = [k \in Invocations |->
       IF k = dialog.pendingPromise
         THEN [inv[k] EXCEPT !.isCancelled = TRUE]
         ELSE inv[k]]
  /\ UNCHANGED <<toolsSupported, anthropic, env, storage>>

\* anthropicContentGenerator.ts:461-467, called at part_000:66:
\* deleteCredentials resolves, the entry gone, or rejects, which is caught
\* and logged; either way the promise of clearAnthropicApiKey is fulfilled
\* and its reaction queued
HandleClearSettles(i, ok) ==
  /\ inv[i].kind = "handleClear" /\ inv[i].pc = "delete"
  /\ ~MicrotasksPending
  /\ IF ok
       THEN storage' = [storage EXCEPT ![ANTHROPIC_API_KEY_ENTRY] =
              NoCredentials]
       ELSE UNCHANGED storage
  /\ inv' = [inv EXCEPT ![i] =
       [@ EXCEPT !.pc = "cleared", !.err = IF ok THEN <<>> ELSE StoreError]]
  /\ UNCHANGED <<toolsSupported, anthropic, env, dialog>>

\* the mutant of OnCleared: wrappedPromise is resolved whatever isCancelled
OnClearedIgnoringCancel(i) ==
  /\ inv[i].kind = "handleClear" /\ inv[i].pc = "cleared"
  /\ inv' = [inv EXCEPT ![i] = [@ EXCEPT !.pc = "resolved"]]
  /\ UNCHANGED <<toolsSupported, anthropicVars>>

\* part_000:66-69: the reaction to the fulfilled promise of
\* clearAnthropicApiKey: `!isCancelled && resolve()`; a cancelled clear
\* leaves wrappedPromise pending for ever.  (The rejection reaction of line
\* 68 has no step: clearAnthropicApiKey catches what the store throws.)
OnCleared(i) ==
  /\ inv[i].kind = "handleClear" /\ inv[i].pc = "cleared"
  /\ IF ~inv[i].isCancelled
       THEN inv' = [inv EXCEPT ![i] = [@ EXCEPT !.pc = "resolved"]]
       ELSE inv' = [inv EXCEPT ![i] =
              [@ EXCEPT !.pc = "done", !.result = NeverSettles]]
  /\ UNCHANGED <<toolsSupported, anthropicVars>>

\* part_000:78-81: the then-callback of wrappedPromise: buffer.setText('')
ThenCallback(i) ==
  /\ inv[i].kind = "handleClear" /\ inv[i].pc = "resolved"
  /\ dialog' = [dialog EXCEPT !.buffer = <<>>]
  /\ inv' = [inv EXCEPT ![i] = [@ EXCEPT !.pc = "done", !.result = Reset]]
  /\ UNCHANGED <<toolsSupported, anthropic, env, storage>>

TypedTexts == {<<"sk-ant">>, <<"sk-ant", " ", "api03">>}

DialogNext ==
  \/ \E text \in TypedTexts : TypeKey(text)
  \/ Unmount
  \/ \E i \in Invocations :
       \/ NextToStart(i) /\ HandleClear(i)
       \/ \E ok \in BOOLEAN : HandleClearSettles(i, ok)
       \/ OnCleared(i)
       \/ ThenCallback(i)

DialogSpec == Init /\ [][DialogNext]_vars

\* the step is the then-callback of clear i emptying the buffer
ResetsBuffer(i) ==
  /\ inv[i].kind = "handleClear"
  /\ inv[i].result # Reset /\ inv'[i].result = Reset
  /\ dialog'.buffer = <<>>

\* C25: a clear of the key dialog that has been cancelled (by the unmount or
\* by a newer clear) applies no result afterwards, whenever the store
\* completes: it stays cancelled and from then on neither empties the buffer
\* nor runs its failure handler; only the most recently started clear, not cancelled,
\* empties the buffer
C25_CancelledClearAppliesNothing ==
  [][\A i \in Invocations :
       /\ inv[i].kind = "handleClear" /\ inv[i].isCancelled
            => /\ inv'[i].isCancelled
               /\ ~ResetsBuffer(i)
               /\ inv'[i].result \in {inv[i].result, NeverSettles}
       /\ ResetsBuffer(i)
            => /\ dialog.pendingPromise = i
               /\ ~inv[i].isCancelled
               /\ dialog.mounted
       /\ (dialog.buffer # <<>> /\ dialog'.buffer = <<>>)
            => \E k \in Invocations : ResetsBuffer(k)
    ]_vars

\* the store completes the first clear after a newer clear has cancelled it,
\* and the newer clear has emptied the buffer
C25_Witness ==
  /\ inv[1].kind = "handleClear" /\ inv[1].isCancelled
  /\ inv[1].result = NeverSettles
  /\ inv[2].kind = "handleClear" /\ ~inv[2].isCancelled
  /\ inv[2].result = Reset

----------------------------------------------------------------------------
(* Properties of the translated request *)

\* the fragments of a system instruction joined in order with the separator
JoinedFragments(si) ==
  IF si.kind = "string" THEN si.text
  ELSE JoinWith([k \in 1..Len(si.parts) |-> si.parts[k].text],
                SystemSeparator)

\* the positions of the system entries among `messages`
SystemEntries(messages) ==
  {k \in 1..Len(messages) : messages[k].role = "system"}

\* C26: for a system instruction that is a string or a list of text
\* fragments: if the joined text is not empty, the Ollama payload has exactly
\* one system message, the first, holding the fragments joined in order with
\* the separator, and the Anthropic request carries that text as its system
\* entry, apart from its messages; if the text is empty there is no system
\* entry at all
C26_OneSystemEntryFirst ==
  LET si == inv[1].request.systemInstruction
  IN /\ (IsGeneration(1) /\ si.kind \in {"string", "parts"})
          => /\ SystemEntries(inv[1].messages) =
                  IF JoinedFragments(si) # <<>> THEN {1} ELSE {}
             /\ JoinedFragments(si) # <<>>
                  => inv[1].messages[1].content = JoinedFragments(si)
     /\ ( /\ inv[1].kind = "anthropic.generateContent"
          /\ Len(inv[1].sent) = 1
          /\ si.kind \in {"string", "parts"} )
          => /\ inv[1].sent[1].params.system = JoinedFragments(si)
             /\ SystemEntries(inv[1].sent[1].params.messages) = {}

\* a system instruction of two fragments, the second empty, translated ahead
\* of one message of the conversation
C26_Witness ==
  /\ IsGeneration(1)
  /\ inv[1].request.systemInstruction =
       [kind |-> "parts", parts |-> <<TextPart(<<"a">>), TextPart(<<>>)>>]
  /\ Len(inv[1].messages) = 2
  /\ inv[1].messages[1] =
       [role |-> "system", content |-> <<"a", "\\n">>, tool_calls |-> <<>>]

\* the contents of a request that bear no functionResponse part
WithoutFunctionResponse(contents) ==
  SelectSeq(contents,
            LAMBDA c : \A k \in 1..Len(c.parts) : ~HasFunctionResponse(c.parts[k]))

\* the text of the text parts of a content, in order
TextOf(c) ==
  Flatten([k \in 1..Len(c.parts) |->
             IF c.parts[k].t = "text" THEN c.parts[k].text ELSE <<>>])

\* the messages after the system entry
AfterSystem(messages) ==
  SelectSeq(messages, LAMBDA m : m.role # "system")

\* C27: a request translated while the state is Disabled has no message of
\* role 'tool' and no tool_calls; every content bearing a functionResponse
\* part is dropped whole, its text included, and of the other contents only
\* the text is sent, the functionCall parts left out
C27_DisabledTranslationIsToolFree ==
  (IsGeneration(1) /\ ~inv[1].supportedAtCall) =>
    LET kept == SelectSeq(WithoutFunctionResponse(inv[1].request.contents),
                          LAMBDA c : TextOf(c) # <<>>)
        sent == AfterSystem(inv[1].messages)
    IN /\ \A k \in 1..Len(inv[1].messages) :
            /\ inv[1].messages[k].role # "tool"
            /\ inv[1].messages[k].tool_calls = <<>>
       /\ Len(sent) = Len(kept)
       /\ \A k \in 1..Len(sent) : sent[k].content = TextOf(kept[k])
       /\ \A k \in 1..Len(inv[1].sent) :
            inv[1].sent[k].messages = inv[1].messages

\* a functionResponse with text and a functionCall with text are translated
\* while the state is Disabled and the call is issued
C27_Witness ==
  /\ IsGeneration(1) /\ ~inv[1].supportedAtCall
  /\ inv[1].request.contents =
       <<Content("user", <<FunctionResponsePart(<<>>), TextPart(<<"next">>)>>),
         Content("model", <<TextPart(<<"I list">>),
                            FunctionCallPart("ls", <<"{}">>)>>)>>
  /\ Len(inv[1].sent) = 1
  /\ AfterSystem(inv[1].messages) =
       <<[role |-> "assistant", content |-> <<"I list">>, tool_calls |-> <<>>]>>

\* C28: once the state is Disabled it stays so, and an invocation of
\* generateContent or generateContentStream made since then issues at most
\* one backend call, which carries no tool declaration, no tool-result
\* message and no tool_calls; whatever its outcome (a response, an error,
\* the end of the stream) it has issued exactly one
C28_DisabledPersistsOneToolFreeCall ==
  \A i \in Invocations :
    (IsGeneration(i) /\ ~inv[i].supportedAtCall) =>
      /\ ~toolsSupported
      /\ Len(inv[i].sent) <= 1
      /\ \A k \in 1..Len(inv[i].sent) : ToolFree(inv[i].sent[k])
      /\ (inv[i].pc = "done" /\ inv[i].result.type # "cancelled")
           => Len(inv[i].sent) = 1

\* an invocation made while Disabled met the tools-unsupported failure again
\* and ended with the one call it had issued
C28_Witness ==
  \E i \in Invocations :
    /\ IsGeneration(i) /\ ~inv[i].supportedAtCall
    /\ inv[i].pc = "done" /\ inv[i].err = ToolsError
    /\ Len(inv[i].sent) = 1 /\ ToolFree(inv[i].sent[1])

\* a message of the Ollama payload that is no blank turn
OllamaTurnHasContent(m) ==
  m.content # <<>> \/ Len(m.tool_calls) > 0

\* a message of the Anthropic request that is no blank turn: it has blocks,
\* and none of them is an empty text
AnthropicTurnHasContent(m) ==
  /\ Len(m.content) > 0
  /\ \A k \in 1..Len(m.content) :
       \/ m.content[k].type = "text" /\ m.content[k].text # <<>>
       \/ m.content[k].type = "tool_use"
       \/ m.content[k].type = "tool_result" /\ m.content[k].content # <<>>

\* C29: no message of a translated request is a blank turn, whatever the
\* request and the tool-support state: every message of the Ollama payload
\* has text or tool calls or is a tool result with its payload, and every
\* message of the Anthropic request has a non-empty text block, a tool_use
\* block or a tool_result block
C29_NoBlankTurn ==
  /\ IsGeneration(1) =>
       \A k \in 1..Len(inv[1].messages) :
         OllamaTurnHasContent(inv[1].messages[k])
  /\ (inv[1].kind = "anthropic.generateContent" /\ Len(inv[1].sent) = 1) =>
       \A k \in 1..Len(inv[1].sent[1].params.messages) :
         AnthropicTurnHasContent(inv[1].sent[1].params.messages[k])

\* a request whose first content has no text and whose second has a
\* functionCall only is translated by the Anthropic translator: one message
C29_Witness ==
  /\ inv[1].kind = "anthropic.generateContent" /\ Len(inv[1].sent) = 1
  /\ inv[1].request.contents =
       <<Content("user", <<TextPart(<<>>), OtherPart>>),
         Content("model", <<FunctionCallPart("ls", <<>>)>>)>>
  /\ Len(inv[1].sent[1].params.messages) = 1

----------------------------------------------------------------------------
(* Properties of the Anthropic stream's text *)

\* the text of the text parts of one yielded chunk
ChunkText(chunk) ==
  Flatten([j \in 1..Len(chunk.parts) |->
             IF chunk.parts[j].t = "text" THEN chunk.parts[j].text ELSE <<>>])

\* the text parts of the chunks yielded, concatenated
StreamedText(out) == Flatten([k \in 1..Len(out) |-> ChunkText(out[k])])

\* the text the backend streamed: its text deltas, concatenated
BackendText(fed) == Flatten([k \in 1..Len(fed) |-> fed[k].text])

\* C30: the Anthropic stream forwards text per chunk: the chunk yielded for a
\* backend chunk carries the text that arrived in that chunk, and the text
\* parts of a completed stream, concatenated, are the backend's text, each
\* fragment once
C30_AnthropicTextPerChunk ==
  inv[1].kind = AnthropicStream =>
    /\ \A k \in 1..Len(inv[1].fed) :
         k <= Len(inv[1].out) => ChunkText(inv[1].out[k]) = inv[1].fed[k].text
    /\ (inv[1].pc = "done" /\ inv[1].result.type = "completed")
         => StreamedText(inv[1].out) = BackendText(inv[1].fed)

----------------------------------------------------------------------------
(* Properties of the usage counters *)

RECURSIVE FirstPromptReport(_)
\* the first prompt count the chunks of an Ollama stream report (0: none)
FirstPromptReport(fed) ==
  IF fed = <<>> THEN 0
  ELSE IF Head(fed).prompt_eval_count # 0 THEN Head(fed).prompt_eval_count
  ELSE FirstPromptReport(Tail(fed))

RECURSIVE LatestCandidateReport(_)
\* the latest candidate count the chunks of an Ollama stream report (0: none)
LatestCandidateReport(fed) ==
  IF fed = <<>> THEN 0
  ELSE IF fed[Len(fed)].eval_count # 0 THEN fed[Len(fed)].eval_count
  ELSE LatestCandidateReport(SubSeq(fed, 1, Len(fed) - 1))

RECURSIVE FirstInputReport(_)
\* the input tokens of the first message_start event that has a usage
FirstInputReport(fed) ==
  IF fed = <<>> THEN 0
  ELSE IF Head(fed).type = "message_start" /\ Head(fed).hasUsage
    THEN Head(fed).input_tokens
  ELSE FirstInputReport(Tail(fed))

RECURSIVE LatestOutputReport(_)
\* the output tokens of the latest message_delta event that has a usage
LatestOutputReport(fed) ==
  IF fed = <<>> THEN 0
  ELSE IF fed[Len(fed)].type = "message_delta" /\ fed[Len(fed)].hasUsage
    THEN fed[Len(fed)].output_tokens
  ELSE LatestOutputReport(SubSeq(fed, 1, Len(fed) - 1))

\* C31: during a stream the prompt-token counter is the first count a backend
\* chunk reported, later reports not overwriting it, and the candidate-token
\* counter is the latest count reported
C31_PromptFirstCandidateLatest ==
  /\ IsStream(1) =>
       /\ inv[1].promptTokenCount = FirstPromptReport(inv[1].fed)
       /\ inv[1].candidatesTokenCount = LatestCandidateReport(inv[1].fed)
  /\ inv[1].kind = AnthropicStream =>
       \A k \in 1..Len(inv[1].fed) :
         k <= Len(inv[1].out) =>
           /\ inv[1].out[k].promptTokenCount =
                FirstInputReport(SubSeq(inv[1].fed, 1, k))
           /\ inv[1].out[k].candidatesTokenCount =
                LatestOutputReport(SubSeq(inv[1].fed, 1, k))

----------------------------------------------------------------------------
(* One generateContent call on its own, over the responses a backend may   *)
(* return                                                                  *)

\* the counts a backend may report: none (0 for Ollama, undefined for
\* Anthropic) or a number
OllamaCounts == {0, 3}
AnthropicCounts == {Undefined, Number(0), Number(3)}

OllamaResponses ==
  {BackendMessage(content, tool_calls, prompt_eval_count, eval_count, TRUE) :
     content \in {<<>>, <<"ok">>},
     tool_calls \in {<<>>, <<[name |-> "ls", arguments |-> <<"{}">>]>>},
     prompt_eval_count \in OllamaCounts, eval_count \in OllamaCounts}

AnthropicResponses ==
  {[content |-> content, hasUsage |-> TRUE,
    input_tokens |-> input_tokens, output_tokens |-> output_tokens] :
     content \in {<<>>, <<[type |-> "text", text |-> <<"ok">>]>>},
     input_tokens \in AnthropicCounts, output_tokens \in AnthropicCounts}
  \cup {[content |-> <<[type |-> "text", text |-> <<"ok">>]>>,
         hasUsage |-> FALSE,
         input_tokens |-> Undefined, output_tokens |-> Undefined]}

ResponseNext ==
  \/ /\ inv[1].pc = "idle"
     /\ \E r \in {PlainRequest, ToolRequest} :
          \/ GenerateContent(1, r)
          \/ AnthropicGenerateContent(1, r)
  \/ \E e \in Errors : GenerateContentFirstFails(1, e)
  \/ \E e \in Errors : GenerateContentRetryFails(1, e)
  \/ \E r \in OllamaResponses : GenerateContentReturns(1, r)
  \/ \E ok \in BOOLEAN : AnthropicKeyLoaded(1, ok)
  \/ \E r \in AnthropicResponses : AnthropicCreateReturns(1, r)
  \/ \E e \in Errors : AnthropicCreateFails(1, e)

ResponseSpec == Init /\ [][ResponseNext]_vars

\* a count the Anthropic backend reported, a missing one taken as 0
OrZero(count) == IF count.js = "number" THEN count.n ELSE 0

\* C32: the usage counters of a non-streaming response are the input and
\* output token counts the backend reported, a missing count taken as 0, and
\* totalTokenCount is their sum, for the Ollama and the Anthropic normalizer
C32_UsageFromBackendCounts ==
  /\ (inv[1].kind = "generateContent" /\ Len(inv[1].fed) = 1) =>
       /\ inv[1].result.type = "response"
       /\ inv[1].result.value.promptTokenCount = inv[1].fed[1].prompt_eval_count
       /\ inv[1].result.value.candidatesTokenCount = inv[1].fed[1].eval_count
       /\ inv[1].result.value.totalTokenCount =
            inv[1].fed[1].prompt_eval_count + inv[1].fed[1].eval_count
  /\ (inv[1].kind = "anthropic.generateContent" /\ Len(inv[1].fed) = 1) =>
       LET input == IF inv[1].fed[1].hasUsage
                      THEN OrZero(inv[1].fed[1].input_tokens) ELSE 0
           output == IF inv[1].fed[1].hasUsage
                       THEN OrZero(inv[1].fed[1].output_tokens) ELSE 0
       IN /\ inv[1].result.type = "response"
          /\ inv[1].result.value.promptTokenCount = Number(input)
          /\ inv[1].result.value.candidatesTokenCount = Number(output)
          /\ inv[1].result.value.totalTokenCount = Number(input + output)

----------------------------------------------------------------------------
(* Conservation of text by the stream aggregator *)

\* the text fragments of the chunks the backend streamed, concatenated
IncomingText(fed) == Flatten([k \in 1..Len(fed) |-> fed[k].content])

\* the functionCall parts among the chunks yielded
YieldedCalls(out) == Len(SelectSeq(YieldedParts(out), HasFunctionCall))

\* the tool calls the backend streamed
IncomingCalls(fed) ==
  Len(Flatten([k \in 1..Len(fed) |-> fed[k].tool_calls]))

\* C33: the aggregator conserves text.  At every chunk the text parts yielded
\* so far, followed by the text withheld in the accumulator, are the text
\* fragments received so far, in order; the completion chunk leaves nothing
\* withheld; and the only text not yielded is the accumulator from which the
\* completion chunk synthesized a functionCall, which is omitted whole
C33_TextConserved ==
  [][(IsStream(1) /\ inv'[1].fed # inv[1].fed) =>
       LET chunk == inv'[1].fed[Len(inv'[1].fed)]
           synthesized ==
             YieldedCalls(inv'[1].out) - YieldedCalls(inv[1].out)
               > Len(chunk.tool_calls)
       IN /\ StreamedText(inv[1].out) \o inv[1].accumulatedText
               = IncomingText(inv[1].fed)
          /\ chunk.done => inv'[1].accumulatedText = <<>>
          /\ IF synthesized
               THEN /\ chunk.done
                    /\ StreamedText(inv'[1].out) = StreamedText(inv[1].out)
                    /\ StreamedText(inv[1].out) \o inv[1].accumulatedText
                         \o chunk.content = IncomingText(inv'[1].fed)
               ELSE StreamedText(inv'[1].out) \o inv'[1].accumulatedText
                      = IncomingText(inv'[1].fed)
    ]_vars

\* text was yielded at once, later text was withheld, and the completion
\* chunk synthesized a functionCall from what was withheld
C33_Witness ==
  /\ inv[1].kind = FirstCopy /\ Completed(1)
  /\ StreamedText(inv[1].out) = <<"Hello ">>
  /\ YieldedCalls(inv[1].out) = 1 /\ IncomingCalls(inv[1].fed) = 0
  /\ IncomingText(inv[1].fed) # StreamedText(inv[1].out)

\* C34: in every chunk a stream yields, of the Ollama adapter (either copy)
\* and of the Anthropic adapter, totalTokenCount is promptTokenCount plus
\* candidatesTokenCount, whatever the backend reported and in whatever order
C34_TotalIsSum ==
  \A i \in Invocations :
    (IsStream(i) \/ inv[i].kind = AnthropicStream) =>
      \A k \in 1..Len(inv[i].out) :
        inv[i].out[k].totalTokenCount =
          inv[i].out[k].promptTokenCount + inv[i].out[k].candidatesTokenCount

\* an Ollama stream has yielded a chunk after a first usage report and a
\* second chunk after a different, smaller report
C34_Witness ==
  /\ IsStream(1)
  /\ Len(inv[1].out) = 2
  /\ inv[1].out[1].totalTokenCount = 5
  /\ inv[1].out[2].totalTokenCount = 3
  /\ inv[1].out[2].candidatesTokenCount = 1

====
